---- MODULE Spec2Model ----
(***************************************************************************)
(* Model of the bankruptcy-retrieval pipeline.                             *)
(*                                                                         *)
(*  - the straight-line orchestrator (main.py: main / process_deal),       *)
(*  - the graph orchestrator (graph.py routing + nodes.py nodes),          *)
(*  - the telemetry logger and benchmark report (shared/telemetry.py),     *)
(*  - the exclusion check (shared/config.py is_excluded).                  *)
(*                                                                         *)
(* External collaborators (discovery API, scoring backend, file download)  *)
(* are modelled by the outcomes their call sites can observe: a returned   *)
(* value or a raised exception.                                            *)
(***************************************************************************)
EXTENDS Integers, Sequences, FiniteSets, TLC

VARIABLES
    variant,              \* "straight" (main.py) or "graph" (graph.py)
    deals,                \* the dataset: a sequence of deal records
    ground_truth,         \* TelemetryLogger.ground_truth
    idx,                  \* position of main's for-loop in the dataset
    pc,                   \* position inside main / process_deal
    api_calls_for_deal,   \* process_deal local counter
    entries,              \* process_deal local: the docket entries found
    resolved_pdf_url,     \* process_deal local: "none" or "url"
    is_available,         \* process_deal local
    processed_count,      \* main local
    log,                  \* execution_log.jsonl, one record per line
    outcomes,             \* TelemetryLogger._outcomes
    api_calls_total,      \* TelemetryLogger._api_calls_total
    llm_calls_total,      \* TelemetryLogger._llm_calls_total
    report,               \* benchmark_report.json: << >> until written,
                          \* then the one report object
    calls,                \* history of external calls (op, deal, result)
    budget_at,            \* history: deal index at which the budget ran out
    log_at_budget,        \* history: the event log when the budget ran out
    g_node,               \* graph: the node to execute next
    g_state,              \* graph: the PipelineState dict
    g_trace,              \* history: the graph nodes executed so far
    gk_threshold,         \* LLMGatekeeper.score_threshold
    gk_outcome,           \* what the scoring backend does with the request
    gk_result,            \* << >>, then what evaluate returned or raised
    gk_candidate,         \* the CandidateDocument handed to evaluate
    gk_request,           \* << >>, then the payload evaluate posted
    sc_deal,              \* scout_with_fallback: the deal argument
    sc_trace,             \* history: the sources queried, with their outcomes
    sc_result,            \* << >>, then what scout_with_fallback returned
    dl_response,          \* download_via_httpx_fallback: the server's answer
    dl_disk,              \* the bytes of the target file on disk, -1 if none
    dl_result,            \* << >>, then what the download returned or raised
    cw_reports,           \* compare_worktrees: per worktree << >> (no file)
                          \* or the one report loaded
    cw_output             \* << >>, then what compare_worktrees.main printed

vars == <<variant, deals, ground_truth, idx, pc, api_calls_for_deal,
          entries, resolved_pdf_url, is_available, processed_count, log, outcomes,
          api_calls_total, llm_calls_total, report, calls, budget_at,
          log_at_budget, g_node, g_state, g_trace, gk_threshold, gk_outcome,
          gk_result, gk_candidate, gk_request, sc_deal, sc_trace, sc_result, dl_response,
          dl_disk, dl_result, cw_reports, cw_output>>

mainVars == <<idx, pc, api_calls_for_deal, entries, resolved_pdf_url, is_available,
              processed_count, log, outcomes, api_calls_total,
              llm_calls_total, report, budget_at, log_at_budget>>

graphVars == <<g_node, g_state, g_trace>>

gateVars ==
    <<gk_threshold, gk_outcome, gk_result, gk_candidate, gk_request>>

browserVars == <<sc_deal, sc_trace, sc_result, dl_response, dl_disk, dl_result>>

compareVars == <<cw_reports, cw_output>>

-----------------------------------------------------------------------------
(* Bounds *)

MaxDeals == 2

MaxEntries == 2

-----------------------------------------------------------------------------
(* Configuration: shared/config.py *)

EXCLUDED_DEALS ==
    {"Party City", "Diebold Nixdorf", "Incora", "Cano Health",
     "Envision Healthcare"}

EXCLUDED_DEAL_IDS ==
    {"party-city-2023", "diebold-nixdorf-2023", "incora-2023",
     "cano-health-2024", "envision-healthcare-2023"}

NumPriorityKeywords == 8

MAX_KEYWORD_QUERIES_PER_DEAL == 6

Min(a, b) == IF a < b THEN a ELSE b

-----------------------------------------------------------------------------
(* Inputs: the dataset and the ground-truth table *)

\* The values a field of a deal record can hold once json.load has read the
\* dataset (main.py:330): a bool is the integer 0 or 1 of its own type, a
\* string is known by its length, None has no content.
False == [type |-> "bool", value |-> 0]

True == [type |-> "bool", value |-> 1]

\* the truth value Python's `or` and `if` give a value (nodes.py:62-68)
bool(v) == v.type # "NoneType" /\ v.value # 0

\* Deal records as loaded from deals_dataset.json; the first one names a
\* claims agent, the last one has no deal_id key.
DealSet ==
    { [deal_id |-> "d1", company_name |-> "Acme", already_processed |-> False,
       claims_agent |-> "Kroll"],
      [deal_id |-> "d2", company_name |-> "Beta", already_processed |-> False],
      [deal_id |-> "d3", company_name |-> "Gamma", already_processed |-> True],
      [deal_id |-> "party-city-2023", company_name |-> "PC Holdco",
       already_processed |-> False],
      [deal_id |-> "d5", company_name |-> "Party City",
       already_processed |-> False],
      [company_name |-> "Delta", already_processed |-> True] }

DealIds == {"d1", "d2", "d3", "party-city-2023", "d5", "", "unknown"}

\* dict.get(key, default)
Get(d, key, default) == IF key \in DOMAIN d THEN d[key] ELSE default

NoTruth == [present |-> FALSE, already_processed |-> FALSE,
            has_financial_data |-> FALSE]

Truth(ap, data) == [present |-> TRUE, already_processed |-> ap,
                    has_financial_data |-> data]

\* A ground truth that agrees with the dataset flags and exclusion sets.
GT_Agree ==
    [id \in DealIds |->
        CASE id = "d1" -> Truth(FALSE, TRUE)
          [] id = "d2" -> Truth(FALSE, FALSE)
          [] id = "d3" -> Truth(TRUE, FALSE)
          [] id = "party-city-2023" -> Truth(TRUE, TRUE)
          [] id = "d5" -> Truth(TRUE, FALSE)
          [] OTHER -> NoTruth]

\* A ground truth that marks d1 already processed although the dataset
\* record of d1 is not flagged, and that lacks d2.
GT_Differ ==
    [id \in DealIds |->
        CASE id = "d1" -> Truth(TRUE, TRUE)
          [] id = "d3" -> Truth(TRUE, FALSE)
          [] id = "party-city-2023" -> Truth(TRUE, TRUE)
          [] id = "d5" -> Truth(FALSE, TRUE)
          [] OTHER -> NoTruth]

GroundTruths == {GT_Agree, GT_Differ}

Datasets == UNION { [1..n -> DealSet] : n \in 1..MaxDeals }

-----------------------------------------------------------------------------
(* shared/config.py: is_excluded *)

is_excluded_NoIds(deal) ==
    \/ Get(deal, "company_name", "") \in EXCLUDED_DEALS
    \/ Get(deal, "already_processed", False) = True

is_excluded_NoFlag(deal) ==
    \/ Get(deal, "company_name", "") \in EXCLUDED_DEALS
    \/ Get(deal, "deal_id", "") \in EXCLUDED_DEAL_IDS

is_excluded(deal) ==
    \/ Get(deal, "company_name", "") \in EXCLUDED_DEALS
    \/ Get(deal, "deal_id", "") \in EXCLUDED_DEAL_IDS
    \/ Get(deal, "already_processed", False) = True

-----------------------------------------------------------------------------
(* shared/telemetry.py: TelemetryLogger                                     *)
(* The logger state is passed as a record t so that the several logging    *)
(* calls of one handler compose.                                           *)

Tel == [log |-> log, outcomes |-> outcomes,
        api |-> api_calls_total, llm |-> llm_calls_total]

SetTel(t) ==
    /\ log' = t.log
    /\ outcomes' = t.outcomes
    /\ api_calls_total' = t.api
    /\ llm_calls_total' = t.llm

\* _make_event + to_dict: i is the dataset position of the deal (history).
make_event(event_type, i, status, api, llm) ==
    [event_type |-> event_type,
     deal |-> i,
     deal_id |-> Get(deals[i], "deal_id", "unknown"),
     pipeline_status |-> status,
     total_api_calls_this_deal |-> api,
     total_llm_calls_this_deal |-> llm]

\* _append opens the log in append mode and writes one line
append_Rewrite(t, event) == [t EXCEPT !.log = <<event>>]

append(t, event) == [t EXCEPT !.log = Append(@, event)]

log_exclusion_skip_Silent(t, i) ==
    [t EXCEPT !.outcomes[Get(deals[i], "deal_id", "")] = "ALREADY_PROCESSED"]

log_exclusion_skip(t, i) ==
    [append(t, make_event("EXCLUSION_SKIP", i, "", 0, 0))
        EXCEPT !.outcomes[Get(deals[i], "deal_id", "")] = "ALREADY_PROCESSED"]

log_scout_query(t, i, api_calls_this_query) ==
    append([t EXCEPT !.api = @ + api_calls_this_query],
           make_event("SCOUT_QUERY", i, "", 0, 0))

log_gatekeeper_decision_NoCount(t, i) ==
    append(t, make_event("GATEKEEPER_DECISION", i, "", 0, 0))

log_gatekeeper_decision(t, i) ==
    append([t EXCEPT !.llm = @ + 1],
           make_event("GATEKEEPER_DECISION", i, "", 0, 0))

log_fetch_result(t, i) ==
    append(t, make_event("FETCH_RESULT", i, "", 0, 0))

log_pipeline_terminal(t, i, pipeline_status, total_api_calls, total_llm_calls) ==
    LET t1 == [t EXCEPT !.outcomes[Get(deals[i], "deal_id", "unknown")] =
                            pipeline_status]
        t2 == append(t1, make_event("PIPELINE_TERMINAL", i, pipeline_status,
                                    total_api_calls, total_llm_calls))
    IN  IF total_api_calls > 0
        THEN [t2 EXCEPT !.api = @ + total_api_calls]
        ELSE t2

\* telemetry.py:270-277
log_event(t, i, event_type) == append(t, make_event(event_type, i, "", 0, 0))

\* telemetry.py:279-292: the record is not about a deal (deal_id None) and
\* is written by the method itself, in append mode
log_budget_warning(t, api_calls_used) ==
    [t EXCEPT !.log =
        Append(@, [event_type |-> "BUDGET_WARNING",
                   deal |-> 0,
                   deal_id |-> "",
                   pipeline_status |-> "",
                   total_api_calls_this_deal |-> api_calls_used,
                   total_llm_calls_this_deal |-> 0])]

classify_FetchFailedIsNegative(deal_id, pipeline_status) ==
    LET truth == ground_truth[deal_id] IN
    IF ~truth.present THEN "UNCLASSIFIED"
    ELSE IF truth.already_processed THEN "ALREADY_PROCESSED"
    ELSE IF pipeline_status = "DOWNLOADED"
         THEN (IF truth.has_financial_data THEN "TRUE_POSITIVE"
               ELSE "FALSE_POSITIVE")
    ELSE IF pipeline_status \in {"SKIPPED", "NOT_FOUND", "FETCH_FAILED"}
         THEN "TRUE_NEGATIVE"
    ELSE "UNCLASSIFIED"

classify(deal_id, pipeline_status) ==
    LET truth == ground_truth[deal_id] IN
    IF ~truth.present THEN "UNCLASSIFIED"
    ELSE IF truth.already_processed THEN "ALREADY_PROCESSED"
    ELSE IF pipeline_status = "DOWNLOADED"
         THEN (IF truth.has_financial_data THEN "TRUE_POSITIVE"
               ELSE "FALSE_POSITIVE")
    ELSE IF pipeline_status \in {"SKIPPED", "NOT_FOUND"}
         THEN (IF ~truth.has_financial_data THEN "TRUE_NEGATIVE"
               ELSE "FALSE_NEGATIVE")
    ELSE IF pipeline_status = "FETCH_FAILED"
         THEN (IF truth.has_financial_data THEN "FALSE_NEGATIVE"
               ELSE "TRUE_NEGATIVE")
    ELSE "UNCLASSIFIED"

Recorded == {id \in DealIds : outcomes[id] # "none"}

Count(c) == Cardinality({id \in Recorded : classify(id, outcomes[id]) = c})

finalise_CountsEvents ==
    LET already == Count("ALREADY_PROCESSED")
        already_incorrectly_processed ==
            Cardinality({id \in Recorded :
                /\ classify(id, outcomes[id]) = "ALREADY_PROCESSED"
                /\ outcomes[id] # "ALREADY_PROCESSED"})
    IN  [deals_total |->
             Cardinality({k \in 1..Len(log) :
                 log[k].event_type = "PIPELINE_TERMINAL"}),
         deals_already_processed |-> already,
         true_positives |-> Count("TRUE_POSITIVE"),
         false_positives |-> Count("FALSE_POSITIVE"),
         true_negatives |-> Count("TRUE_NEGATIVE"),
         false_negatives |-> Count("FALSE_NEGATIVE"),
         unclassified |-> Count("UNCLASSIFIED"),
         total_api_calls |-> api_calls_total,
         total_llm_gatekeeper_calls |-> llm_calls_total,
         already_processed_correctly_excluded |->
             already - already_incorrectly_processed,
         already_processed_incorrectly_processed |->
             already_incorrectly_processed]

finalise_NoLeakCheck ==
    LET already == Count("ALREADY_PROCESSED")
        already_incorrectly_processed == 0
    IN  [deals_total |-> Cardinality(Recorded),
         deals_already_processed |-> already,
         true_positives |-> Count("TRUE_POSITIVE"),
         false_positives |-> Count("FALSE_POSITIVE"),
         true_negatives |-> Count("TRUE_NEGATIVE"),
         false_negatives |-> Count("FALSE_NEGATIVE"),
         unclassified |-> Count("UNCLASSIFIED"),
         total_api_calls |-> api_calls_total,
         total_llm_gatekeeper_calls |-> llm_calls_total,
         already_processed_correctly_excluded |->
             already - already_incorrectly_processed,
         already_processed_incorrectly_processed |->
             already_incorrectly_processed]

\* a Python float that is the quotient of two counts, kept exact as the pair
\* <<numerator, denominator>>; `n / d if d > 0 else 0.0`
ratio(n, d) == IF d > 0 THEN <<n, d>> ELSE <<0, 1>>

round_Truncate(x, ndigits) == (x[1] * 10 ^ ndigits) \div x[2]

\* round(x, ndigits), as the integer number of units of 10^-ndigits:
\* to the nearest unit, a tie to the even one
round(x, ndigits) ==
    LET q == (x[1] * 10 ^ ndigits) \div x[2]
        r == (x[1] * 10 ^ ndigits) % x[2]
    IN  IF 2 * r < x[2] THEN q
        ELSE IF 2 * r > x[2] THEN q + 1
        ELSE IF q % 2 = 0 THEN q ELSE q + 1

finalise ==
    LET already == Count("ALREADY_PROCESSED")
        already_incorrectly_processed ==
            Cardinality({id \in Recorded :
                /\ classify(id, outcomes[id]) = "ALREADY_PROCESSED"
                /\ outcomes[id] # "ALREADY_PROCESSED"})
        tp == Count("TRUE_POSITIVE")
        fp == Count("FALSE_POSITIVE")
        fn == Count("FALSE_NEGATIVE")
        tn == Count("TRUE_NEGATIVE")
        precision == ratio(tp, tp + fp)
        recall == ratio(tp, tp + fn)
        \* 2 * precision * recall / (precision + recall), both terms of the
        \* quotient multiplied by the two denominators
        f1 == ratio(2 * precision[1] * recall[1],
                    precision[1] * recall[2] + recall[1] * precision[2])
        active_deals == tp + fp + fn + tn
        coverage == ratio(tp + fp, active_deals)
        decoy_filter == ratio(tn, tn + fp)
        api_efficiency == ratio(tp, api_calls_total)
    IN  [deals_total |-> Cardinality(Recorded),
         deals_already_processed |-> already,
         deals_active |-> active_deals,
         true_positives |-> tp,
         false_positives |-> fp,
         true_negatives |-> tn,
         false_negatives |-> fn,
         precision |-> round(precision, 4),
         recall |-> round(recall, 4),
         f1_score |-> round(f1, 4),
         coverage |-> round(coverage, 4),
         decoy_filter_rate |-> round(decoy_filter, 4),
         api_efficiency |-> round(api_efficiency, 6),
         unclassified |->
             Cardinality({id \in Recorded :
                 classify(id, outcomes[id]) \notin
                     {"TRUE_POSITIVE", "FALSE_POSITIVE", "FALSE_NEGATIVE",
                      "TRUE_NEGATIVE", "ALREADY_PROCESSED"}}),
         total_api_calls |-> api_calls_total,
         total_llm_gatekeeper_calls |-> llm_calls_total,
         already_processed_correctly_excluded |->
             already - already_incorrectly_processed,
         already_processed_incorrectly_processed |->
             already_incorrectly_processed]

-----------------------------------------------------------------------------
(* main.py: main and process_deal (straight-line variant)                   *)
(* process_deal is cut at its await points: one action per external call,  *)
(* covering the code from that call up to the next call or the return.     *)

Call(op, res) ==
    calls' = Append(calls, [op |-> op, deal |-> idx, res |-> res,
                            queries |-> << >>])

\* process_deal returns normally to main's loop (main.py:350-354).
Return(t) ==
    /\ SetTel(t)
    /\ idx' = idx + 1
    /\ processed_count' = processed_count + 1
    /\ pc' = IF idx + 1 > Len(deals) THEN "finalise" ELSE "main"
    /\ api_calls_for_deal' = 0
    /\ entries' = << >>
    /\ resolved_pdf_url' = "none"
    /\ is_available' = FALSE
    /\ UNCHANGED <<budget_at, log_at_budget, report>>

RaiseBudget_NoFlush ==
    /\ SetTel(Tel)
    /\ pc' = "finalise"
    /\ budget_at' = idx
    /\ log_at_budget' = log
    /\ UNCHANGED <<idx, processed_count, api_calls_for_deal, entries,
                   resolved_pdf_url, is_available, report>>

\* main.py:300-308 and 356-358: the budget handler logs the terminal record,
\* re-raises, and main breaks out of the loop.
RaiseBudget ==
    /\ SetTel(log_pipeline_terminal(Tel, idx, "NOT_FOUND",
                                    api_calls_for_deal, 0))
    /\ pc' = "finalise"
    /\ budget_at' = idx
    /\ log_at_budget' = log
    /\ UNCHANGED <<idx, processed_count, api_calls_for_deal, entries,
                   resolved_pdf_url, is_available, report>>

RaiseOther_Abort ==
    /\ SetTel(log_pipeline_terminal(Tel, idx, "NOT_FOUND",
                                    api_calls_for_deal, 0))
    /\ pc' = "finalise"
    /\ UNCHANGED <<idx, processed_count, api_calls_for_deal, entries,
                   resolved_pdf_url, is_available, report, budget_at,
                   log_at_budget>>

\* main.py:309-316: any other exception is logged as NOT_FOUND.
RaiseOther_Silent == Return(Tel)

RaiseOther ==
    Return(log_pipeline_terminal(Tel, idx, "NOT_FOUND",
                                 api_calls_for_deal, 0))

Goto_Overlap(next_pc, t, api, url, avail) ==
    /\ SetTel(t)
    /\ pc' = next_pc
    /\ api_calls_for_deal' = api
    /\ resolved_pdf_url' = url
    /\ is_available' = avail
    /\ idx' = IF idx < Len(deals) THEN idx + 1 ELSE idx
    /\ UNCHANGED <<processed_count, entries, budget_at, log_at_budget,
                   report>>

\* A step inside process_deal that goes on to the next await point.
Goto(next_pc, t, api, url, avail) ==
    /\ SetTel(t)
    /\ pc' = next_pc
    /\ api_calls_for_deal' = api
    /\ resolved_pdf_url' = url
    /\ is_available' = avail
    /\ UNCHANGED <<idx, processed_count, entries, budget_at, log_at_budget,
                   report>>

\* main.py:58-77
ProcessDealStart ==
    /\ variant = "straight"
    /\ pc = "main"
    /\ idx <= Len(deals)
    /\ UNCHANGED calls
    /\ IF is_excluded(deals[idx])
       THEN Return(log_pipeline_terminal(log_exclusion_skip(Tel, idx), idx,
                                         "ALREADY_PROCESSED", 0, 0))
       ELSE Goto("find_docket", Tel, 0, "none", FALSE)

FindDocketOutcomes == {"docket", "none", "budget", "error"}

\* main.py:80-116
FindDocket ==
    /\ pc = "find_docket"
    /\ \E res \in FindDocketOutcomes :
        /\ Call("find_docket", res)
        /\ CASE res = "budget" -> RaiseBudget
             [] res = "error" -> RaiseOther
             [] res = "none" ->
                    Return(log_pipeline_terminal(
                               log_scout_query(Tel, idx, 1), idx,
                               "NOT_FOUND", api_calls_for_deal + 1, 0))
             [] res = "docket" ->
                    Goto("find_docket_entries", log_scout_query(Tel, idx, 1),
                         api_calls_for_deal + 1, "none", FALSE)

\* A docket entry as find_docket_entries returns it.  recap_documents tells
\* whether the entry lists any document; verdict is what the gatekeeper
\* backend answers for the candidate built from the entry.
Entries ==
    { [recap_documents |-> FALSE, verdict |-> "SKIP"],
      [recap_documents |-> TRUE, verdict |-> "SKIP"],
      [recap_documents |-> TRUE, verdict |-> "DOWNLOAD"] }

EntryLists == UNION { [1..n -> Entries] : n \in 0..MaxEntries }

FindEntriesOutcomes ==
    { [kind |-> k, entries |-> << >>] : k \in {"budget", "error"} } \cup
    { [kind |-> "entries", entries |-> es] : es \in EntryLists }

SelectedEntry_Last(es) ==
    IF \E k \in 1..Len(es) : es[k].recap_documents
    THEN CHOOSE k \in 1..Len(es) :
            /\ es[k].recap_documents
            /\ \A j \in (k + 1)..Len(es) : ~es[j].recap_documents
    ELSE 0

\* main.py:143-148: the position of the first entry with recap documents,
\* 0 when there is none
SelectedEntry(es) ==
    IF \E k \in 1..Len(es) : es[k].recap_documents
    THEN CHOOSE k \in 1..Len(es) :
            /\ es[k].recap_documents
            /\ \A j \in 1..(k - 1) : ~es[j].recap_documents
    ELSE 0

\* main.py:118-177
FindDocketEntries ==
    /\ pc = "find_docket_entries"
    /\ \E res \in FindEntriesOutcomes :
        LET keyword_queries_made ==
                Min(NumPriorityKeywords, MAX_KEYWORD_QUERIES_PER_DEAL)
            api == api_calls_for_deal + keyword_queries_made
            summary == IF res.kind # "entries" THEN res.kind
                       ELSE IF res.entries = << >> THEN "no_entries"
                       ELSE IF SelectedEntry(res.entries) = 0
                            THEN "no_recap_documents"
                       ELSE "recap_documents"
        IN
        /\ Call("find_docket_entries", summary)
        /\ CASE res.kind = "budget" -> RaiseBudget
             [] res.kind = "error" -> RaiseOther
             [] summary \in {"no_entries", "no_recap_documents"} ->
                    Return(log_pipeline_terminal(Tel, idx, "NOT_FOUND", api, 0))
             [] summary = "recap_documents" ->
                    /\ SetTel(Tel)
                    /\ pc' = "get_recap_document_metadata"
                    /\ api_calls_for_deal' = api
                    /\ entries' = res.entries
                    /\ UNCHANGED <<idx, processed_count, resolved_pdf_url,
                                   is_available, budget_at, log_at_budget,
                                   report>>

\* what get_recap_document_metadata can hand back: nothing, or metadata
\* with or without filepath_local and with is_available true or false
MetadataOutcomes ==
    { [kind |-> k, filepath_local |-> "none", is_available |-> FALSE] :
        k \in {"budget", "error", "none"} } \cup
    { [kind |-> "metadata", filepath_local |-> url, is_available |-> avail] :
        url \in {"none", "url"}, avail \in BOOLEAN }

\* main.py:179-217
GetRecapDocumentMetadata ==
    /\ pc = "get_recap_document_metadata"
    /\ \E res \in MetadataOutcomes :
        /\ Call("get_recap_document_metadata", res.kind)
        /\ CASE res.kind = "budget" -> RaiseBudget
             [] res.kind = "error" -> RaiseOther
             [] res.kind = "none" ->
                    Return(log_pipeline_terminal(Tel, idx, "NOT_FOUND",
                                                 api_calls_for_deal + 1, 0))
             [] res.kind = "metadata" ->
                    Goto("evaluate", Tel, api_calls_for_deal + 1,
                         res.filepath_local, res.is_available)

EvaluateOutcomes == {"DOWNLOAD", "SKIP", "error"}

\* main.py:219-262: the gatekeeper is asked about the selected entry
Evaluate ==
    /\ pc = "evaluate"
    /\ \E res \in {entries[SelectedEntry(entries)].verdict, "error"} :
        /\ Call("evaluate", res)
        /\ CASE res = "error" -> RaiseOther
             [] res = "SKIP" ->
                    Return(log_pipeline_terminal(
                               log_gatekeeper_decision(Tel, idx), idx,
                               "SKIPPED", api_calls_for_deal, 1))
             [] res = "DOWNLOAD" ->
                    IF resolved_pdf_url = "none" \/ ~is_available
                    THEN Return(log_pipeline_terminal(
                                    log_fetch_result(
                                        log_gatekeeper_decision(Tel, idx), idx),
                                    idx, "FETCH_FAILED", api_calls_for_deal, 1))
                    ELSE Goto("download_recap_pdf",
                              log_gatekeeper_decision(Tel, idx),
                              api_calls_for_deal, resolved_pdf_url,
                              is_available)

FetchOutcomes == {"success", "failure", "error"}

\* main.py:264-298
DownloadRecapPdf ==
    /\ pc = "download_recap_pdf"
    /\ \E res \in FetchOutcomes :
        /\ Call("download_recap_pdf", res)
        /\ CASE res = "error" -> RaiseOther
             [] res = "failure" ->
                    Return(log_pipeline_terminal(
                               log_fetch_result(Tel, idx), idx,
                               "FETCH_FAILED", api_calls_for_deal, 1))
             [] res = "success" ->
                    Return(log_pipeline_terminal(
                               log_fetch_result(Tel, idx), idx,
                               "DOWNLOADED", api_calls_for_deal, 1))

\* main.py:363-369
Finalise ==
    /\ pc = "finalise"
    /\ report' = <<finalise>>
    /\ pc' = "done"
    /\ UNCHANGED <<idx, api_calls_for_deal, entries, resolved_pdf_url,
                   is_available, processed_count, log, outcomes, api_calls_total,
                   llm_calls_total, calls, budget_at, log_at_budget>>

-----------------------------------------------------------------------------
(* graph.py / nodes.py: the graph variant, one graph execution per deal     *)

\* nodes.py:43-49, the field-targeted queries
NumFieldQueries == 5

\* The PipelineState handed to the entry node holds the deal; every other
\* key reads as the default the nodes pass to state.get (nodes.py:105,
\* 183, 201, 204, 361, 362).
InitialState(deal) ==
    [deal |-> deal,
     search_attempts |-> 0,
     candidates |-> << >>,
     gatekeeper_results |-> << >>,
     downloaded_files |-> << >>,
     pipeline_status |-> "UNKNOWN",
     api_calls_used |-> 0,
     final_status |-> "UNKNOWN"]

GCall(op, res) ==
    calls' = Append(calls, [op |-> op, deal |-> 1, res |-> res,
                            queries |-> << >>])

\* one run of scout_node, with the outcomes of the requests it sent and,
\* when it invoked the browser tool, the outcome of that call ("" if not)
GCallScout(res, queries, browser) ==
    calls' = calls \o << [op |-> "scout", deal |-> 1, res |-> res,
                          queries |-> queries] >>
                   \o IF browser = "" THEN << >>
                      ELSE << [op |-> "browser", deal |-> 1, res |-> browser,
                               queries |-> << >>] >>

\* one node has run: its output state, and the node its edge leads to
GStep(node, new_state, next_node) ==
    /\ g_state' = new_state
    /\ g_node' = next_node
    /\ g_trace' = Append(g_trace, node)
    /\ UNCHANGED mainVars

route_after_exclusion(state) ==
    IF state.pipeline_status = "ALREADY_PROCESSED"
    THEN "already_processed" ELSE "active"

route_after_scout_Eager(state) ==
    IF state.candidates # << >> THEN "found"
    ELSE IF state.search_attempts < 3 THEN "retry"
    ELSE "found"

route_after_scout(state) ==
    IF state.candidates # << >> THEN "found"
    ELSE IF state.search_attempts < 3 THEN "retry"
    ELSE "exhausted"

route_after_gatekeeper_Lax(state) ==
    IF state.gatekeeper_results = << >> THEN "skip" ELSE "download"

route_after_gatekeeper(state) ==
    LET results == state.gatekeeper_results IN
    IF results = << >> THEN "skip"
    ELSE IF results[Len(results)].verdict = "DOWNLOAD" THEN "download"
    ELSE "skip"

route_after_fetcher_Always(state) == "success"

route_after_fetcher(state) ==
    IF state.downloaded_files # << >> THEN "success" ELSE "failed"

\* build_graph: the conditional edges
Edge(node, route) ==
    CASE node = "exclusion_check" /\ route = "already_processed" -> "log"
      [] node = "exclusion_check" /\ route = "active" -> "scout"
      [] node = "scout" /\ route = "found" -> "gatekeeper"
      [] node = "scout" /\ route = "retry" -> "scout"
      [] node = "scout" /\ route = "exhausted" -> "log"
      [] node = "gatekeeper" /\ route = "download" -> "fetcher"
      [] node = "gatekeeper" /\ route = "skip" -> "log"
      [] node = "fetcher" /\ route = "success" -> "telemetry"
      [] node = "fetcher" /\ route = "failed" -> "fallback"

\* nodes.py:56-75
exclusion_check_node ==
    /\ variant = "graph"
    /\ g_node = "exclusion_check"
    /\ UNCHANGED calls
    /\ LET deal == g_state.deal
           excluded ==
               \/ Get(deal, "company_name", "") \in EXCLUDED_DEALS
               \/ Get(deal, "deal_id", "") \in EXCLUDED_DEAL_IDS
               \/ bool(Get(deal, "already_processed", False))
           out == IF excluded
                  THEN [g_state EXCEPT !.pipeline_status = "ALREADY_PROCESSED",
                                       !.final_status = "ALREADY_PROCESSED"]
                  ELSE [g_state EXCEPT !.pipeline_status = "active",
                                       !.final_status = "active"]
       IN  GStep("exclusion_check", out,
                 Edge("exclusion_check", route_after_exclusion(out)))

\* What one search request of scout_node can yield: a result that is
\* available and has a file path ("hit"), a response without one ("miss":
\* non-200, no results, unavailable or pathless results), or a transport
\* exception ("raise").
QueryOutcomes == {"hit", "miss", "raise"}

\* The "dateFiled" of the search result a candidate is built from, as a
\* sequence of character classes ("d" is a digit): the key is absent or
\* null, an ISO date, an ISO timestamp, a date in another notation.
DateFiledValues ==
    LET iso == <<"d", "d", "d", "d", "-", "d", "d", "-", "d", "d">> IN
    { << >>, iso, iso \o <<"T", "d", "d", ":", "d", "d">>,
      <<"d", "d", "/", "d", "d", "/", "d", "d", "d", "d">> }

\* nodes.py:137: the first ten characters, "" when there is no value
date_filed(dateFiled) == SubSeq(dateFiled, 1, Min(10, Len(dateFiled)))

\* nodes.py:107-166: the query loop.  Returns the candidates found, the
\* number of requests sent and whether a request raised.
\* sent is the number of requests sent (history): a request that raises
\* was sent, but is not counted in api_calls_made.
RECURSIVE ScoutQueries_NoBreak(_, _, _, _)
ScoutQueries_NoBreak(outs, i, made, dateFiled) ==
    IF i > Min(NumFieldQueries, MAX_KEYWORD_QUERIES_PER_DEAL)
    THEN [candidates |->
              IF \E k \in 1..(i - 1) : outs[k] = "hit"
              THEN << [source |-> "courtlistener",
                       filing_date |-> date_filed(dateFiled),
                       resolved_pdf_url |-> "url",
                       api_calls_consumed |-> made] >>
              ELSE << >>,
          api_calls_made |-> made, sent |-> made, raised |-> FALSE]
    ELSE IF outs[i] = "raise"
    THEN [candidates |-> << >>, api_calls_made |-> made, sent |-> made + 1,
          raised |-> TRUE]
    ELSE ScoutQueries_NoBreak(outs, i + 1, made + 1, dateFiled)

RECURSIVE ScoutQueries(_, _, _, _)
ScoutQueries(outs, i, made, dateFiled) ==
    IF i > Min(NumFieldQueries, MAX_KEYWORD_QUERIES_PER_DEAL)
    THEN [candidates |-> << >>, api_calls_made |-> made, sent |-> made,
          raised |-> FALSE]
    ELSE IF outs[i] = "raise"
    THEN [candidates |-> << >>, api_calls_made |-> made, sent |-> made + 1,
          raised |-> TRUE]
    ELSE IF outs[i] = "hit"
    THEN [candidates |->
              << [source |-> "courtlistener",
                  filing_date |-> date_filed(dateFiled),
                  resolved_pdf_url |-> "url",
                  api_calls_consumed |-> made + 1] >>,
          api_calls_made |-> made + 1, sent |-> made + 1, raised |-> FALSE]
    ELSE ScoutQueries(outs, i + 1, made + 1, dateFiled)

\* tools.py:180-201 called at nodes.py:170-180: the claims-agent browser
\* tool returns the JSON text of an empty list; an exception raised by the
\* call is caught at the call site.  Either way no candidate is added.
BrowserToolOutcomes == {"empty", "raise"}

\* nodes.py:169, the condition of Phase 2
RunsBrowserTool_Always(candidates, claims_agent) == claims_agent # ""

RunsBrowserTool(candidates, claims_agent) ==
    candidates = << >> /\ claims_agent # ""

\* nodes.py:85-192.  A request that raises is outside any try block, so
\* the exception leaves the node.
scout_node ==
    /\ g_node = "scout"
    /\ \E outs \in [1..Min(NumFieldQueries, MAX_KEYWORD_QUERIES_PER_DEAL)
                       -> QueryOutcomes],
          dateFiled \in DateFiledValues :
        LET r == ScoutQueries(outs, 1, 0, dateFiled)
            claims_agent == Get(g_state.deal, "claims_agent", "")
            out == [g_state EXCEPT
                       !.search_attempts = @ + 1,
                       !.candidates = r.candidates,
                       !.api_calls_used = @ + r.api_calls_made]
            found == IF r.candidates = << >> THEN "none" ELSE "found"
        IN  IF r.raised
            THEN /\ GCallScout("raise", SubSeq(outs, 1, r.sent), "")
                 /\ GStep("scout", g_state, "ABORTED")
            ELSE /\ IF RunsBrowserTool(r.candidates, claims_agent)
                    THEN \E browser \in BrowserToolOutcomes :
                             GCallScout(found, SubSeq(outs, 1, r.sent), browser)
                    ELSE GCallScout(found, SubSeq(outs, 1, r.sent), "")
                 /\ GStep("scout", out, Edge("scout", route_after_scout(out)))

\* nodes.py:199-263
gatekeeper_node ==
    /\ g_node = "gatekeeper"
    /\ IF \E k \in 1..Len(g_state.gatekeeper_results) :
             g_state.gatekeeper_results[k].verdict = "DOWNLOAD"
       THEN /\ UNCHANGED calls
            /\ GStep("gatekeeper", g_state,
                     Edge("gatekeeper", route_after_gatekeeper(g_state)))
       ELSE IF g_state.candidates = << >>
       THEN LET out == [g_state EXCEPT !.gatekeeper_results = << >>] IN
            /\ UNCHANGED calls
            /\ GStep("gatekeeper", out,
                     Edge("gatekeeper", route_after_gatekeeper(out)))
       ELSE \E res \in EvaluateOutcomes :
            LET verdict == IF res = "error" THEN "SKIP" ELSE res
                out == [g_state EXCEPT !.gatekeeper_results =
                            Append(@, [verdict |-> verdict])]
            IN  /\ GCall("evaluate", res)
                /\ GStep("gatekeeper", out,
                         Edge("gatekeeper", route_after_gatekeeper(out)))

\* What the download of fetcher_node can yield: the directory cannot be
\* created (raised outside the try block), a 200 response that is saved,
\* a declared length above the ceiling, a non-200 status, or an exception
\* inside the try block.
GraphFetchOutcomes == {"os_error", "saved", "too_large", "http_error",
                       "exception"}

\* nodes.py:270-336
fetcher_node ==
    /\ g_node = "fetcher"
    /\ LET none == [g_state EXCEPT !.downloaded_files = << >>]
           has_download ==
               \E k \in 1..Len(g_state.gatekeeper_results) :
                   g_state.gatekeeper_results[k].verdict = "DOWNLOAD"
       IN
       IF \/ g_state.candidates = << >>
          \/ g_state.gatekeeper_results = << >>
          \/ ~has_download
          \/ g_state.candidates[1].resolved_pdf_url = "none"
       THEN /\ UNCHANGED calls
            /\ GStep("fetcher", none, Edge("fetcher", route_after_fetcher(none)))
       ELSE \E res \in GraphFetchOutcomes :
            LET out == [g_state EXCEPT !.downloaded_files =
                            IF res = "saved" THEN <<"file">> ELSE << >>]
            IN  /\ GCall("fetch", res)
                /\ IF res = "os_error"
                   THEN GStep("fetcher", g_state, "ABORTED")
                   ELSE GStep("fetcher", out,
                              Edge("fetcher", route_after_fetcher(out)))

\* nodes.py:343-349, edge graph.py:148
fallback_node ==
    /\ g_node = "fallback"
    /\ UNCHANGED calls
    /\ GStep("fallback",
             [g_state EXCEPT !.pipeline_status = "FETCH_FAILED",
                             !.final_status = "FETCH_FAILED"],
             "telemetry")

log_node_KeepsStatus ==
    /\ g_node = "log"
    /\ UNCHANGED calls
    /\ GStep("log", g_state, "END")

\* nodes.py:356-384, edge graph.py:150
log_node ==
    /\ g_node = "log"
    /\ UNCHANGED calls
    /\ LET status ==
               IF g_state.downloaded_files # << >> THEN "DOWNLOADED"
               ELSE IF g_state.candidates = << >> THEN "NOT_FOUND"
               ELSE IF \E k \in 1..Len(g_state.gatekeeper_results) :
                          g_state.gatekeeper_results[k].verdict = "SKIP"
                    THEN "SKIPPED"
               ELSE g_state.pipeline_status
       IN  GStep("log",
                 [g_state EXCEPT !.pipeline_status = status,
                                 !.final_status = status],
                 "END")

\* nodes.py:391-405, edge graph.py:149
telemetry_node ==
    /\ g_node = "telemetry"
    /\ UNCHANGED calls
    /\ LET status == IF g_state.downloaded_files # << >> THEN "DOWNLOADED"
                     ELSE g_state.pipeline_status
       IN  GStep("telemetry",
                 [g_state EXCEPT !.pipeline_status = status,
                                 !.final_status = status],
                 "END")

-----------------------------------------------------------------------------
(* shared/gatekeeper.py: LLMGatekeeper                                      *)
(* Scores and thresholds are counted in hundredths.  A call into the code  *)
(* either returns a value or raises: Ok(r) and Exc(e).                     *)

GATEKEEPER_SCORE_THRESHOLD == 70

\* the thresholds a gatekeeper can be constructed with
Thresholds == {GATEKEEPER_SCORE_THRESHOLD, 0, 50, 100}

Ok(r) == [raises |-> "none", result |-> r]

NoResult == [verdict |-> "", score |-> 0, reasoning |-> 0, error |-> ""]

Exc(e) == [raises |-> e, result |-> NoResult]

\* reasoning is kept as the number of characters of the text
GatekeeperResult(verdict, score, reasoning, error) ==
    [verdict |-> verdict, score |-> score, reasoning |-> reasoning,
     error |-> error]

\* a Python float: a finite value or NaN
Float(n) == [nan |-> FALSE, n |-> n]

NaN == [nan |-> TRUE, n |-> 0]

\* Python's min(a, b) and max(a, b): a, unless b compares below (above) a;
\* every comparison with NaN is false
min(a, b) == IF ~a.nan /\ ~b.nan /\ b.n < a.n THEN b ELSE a

max(a, b) == IF ~a.nan /\ ~b.nan /\ b.n > a.n THEN b ELSE a

\* What the "score" key of a decoded record can hold.
ScoreValues ==
    { [type |-> "number", n |-> n] : n \in {-50, 0, 69, 70, 71, 100, 150} }
    \cup { [type |-> "numeric_string", n |-> 85] }
    \cup { [type |-> t, n |-> 0] : t \in {"absent", "nan", "string", "null"} }

float_Lenient(v) ==
    CASE v.type \in {"number", "numeric_string"} -> Ok(Float(v.n))
      [] v.type = "nan" -> Ok(NaN)
      [] OTHER -> Ok(Float(0))

\* float(x) for a decoded JSON value
float(v) ==
    CASE v.type \in {"number", "numeric_string"} -> Ok(Float(v.n))
      [] v.type = "nan" -> Ok(NaN)
      [] v.type = "string" -> Exc("ValueError")
      [] OTHER -> Exc("TypeError")

\* JSON documents.  An object carries its "score" and "verdict" keys; a list
\* document is a list holding one such object; "broken" is a brace block
\* that is not valid JSON.
NoScore == [type |-> "absent", n |-> 0]

\* What the "reasoning" key of a decoded record can hold: nothing, null,
\* or a text of len characters.
ReasoningValues ==
    { [type |-> "absent", len |-> 0], [type |-> "null", len |-> 0] }
    \cup { [type |-> "string", len |-> n] : n \in {0, 60, 200, 201, 1000} }

\* str(x), as the number of characters: the text itself, "None" for null
str(v) == IF v.type = "null" THEN 4 ELSE v.len

slice_Whole(len, n) == len

\* text[:n], as the number of characters
slice(len, n) == IF len < n THEN len ELSE n

\* an object with a one-sentence reasoning
Object(score, verdict) ==
    [type |-> "object", score |-> score, verdict |-> verdict,
     reasoning |-> [type |-> "string", len |-> 60]]

Docs ==
    { Object(s, v) : s \in ScoreValues, v \in {"DOWNLOAD", "SKIP"} }
    \cup { [Object([type |-> "number", n |-> n], "DOWNLOAD")
                EXCEPT !.reasoning = r] :
             n \in {71, 150}, r \in ReasoningValues }
    \cup { [type |-> "list", score |-> [type |-> "number", n |-> 85],
            verdict |-> "DOWNLOAD"] }
    \cup { [type |-> t, score |-> NoScore, verdict |-> ""] :
             t \in {"number", "string", "null", "broken"} }

\* The text of a response, as a sequence of pieces: a code-fence line,
\* prose without braces, or a document.
Fence == [kind |-> "fence", doc |-> [type |-> "", score |-> NoScore, verdict |-> ""]]

Prose == [kind |-> "prose", doc |-> [type |-> "", score |-> NoScore, verdict |-> ""]]

DocText(d) == [kind |-> "doc", doc |-> d]

Texts ==
    { << >>, <<Prose>>, <<Fence, Prose, Fence>> }
    \cup UNION { { <<DocText(d)>>,
                   <<Fence, DocText(d), Fence>>,
                   <<Prose, DocText(d)>>,
                   <<Prose, DocText(d), Prose>>,
                   <<Prose, Fence, DocText(d), Fence>> } : d \in Docs }

\* json.loads(text)
json_loads(text) ==
    IF Len(text) = 1 /\ text[1].kind = "doc" /\ text[1].doc.type # "broken"
    THEN Ok(text[1].doc)
    ELSE Exc("JSONDecodeError")

\* re.search(r'\{[^}]+\}', text): the first brace block, << >> without one
re_search(text) ==
    LET blocks == {k \in 1..Len(text) :
                      /\ text[k].kind = "doc"
                      /\ text[k].doc.type \in {"object", "list", "broken"}}
        first == CHOOSE k \in blocks : \A j \in blocks : k <= j
        doc == text[first].doc
    IN  IF blocks = {} THEN << >>
        ELSE IF doc.type = "list"
             THEN <<DocText(Object(doc.score, doc.verdict))>>
             ELSE <<DocText(doc)>>

\* gatekeeper.py:276-301: from the raw text to the decoded value
decode(raw_text) ==
    LET cleaned ==
            IF Len(raw_text) > 0 /\ raw_text[1].kind = "fence"
            THEN SelectSeq(raw_text, LAMBDA piece : piece.kind # "fence")
            ELSE raw_text
        match == re_search(cleaned)
    IN  IF json_loads(cleaned).raises = "none" THEN json_loads(cleaned)
        ELSE IF match = << >> THEN Exc("No JSON found")
        ELSE IF json_loads(match).raises = "none" THEN json_loads(match)
        ELSE Exc("JSON parse failed")

\* reasoning "Parse failure - conservative SKIP"
fallback_skip(error_msg) == GatekeeperResult("SKIP", 0, 33, error_msg)

extract_fields_TrustVerdict(parsed, score_threshold) ==
    IF parsed.type # "object" THEN Exc("AttributeError")
    ELSE LET f == float(IF parsed.score.type = "absent"
                        THEN [type |-> "number", n |-> 0]
                        ELSE parsed.score)
             score == max(Float(0), min(Float(100), f.result))
         IN  IF f.raises # "none" THEN Ok(fallback_skip(f.raises))
             ELSE Ok(GatekeeperResult(parsed.verdict, score.n,
                                      slice(str(parsed.reasoning), 200),
                                      "None"))

\* gatekeeper.py:303-322: validate and extract the fields
extract_fields(parsed, score_threshold) ==
    IF parsed.type # "object" THEN Exc("AttributeError")
    ELSE LET f == float(IF parsed.score.type = "absent"
                        THEN [type |-> "number", n |-> 0]
                        ELSE parsed.score)
             score == max(Float(0), min(Float(100), f.result))
             \* str(parsed.get("reasoning", "No reasoning provided"))[:200]
             reasoning ==
                 slice(IF parsed.reasoning.type = "absent" THEN 21
                       ELSE str(parsed.reasoning), 200)
             verdict == IF score.n >= score_threshold THEN "DOWNLOAD"
                        ELSE "SKIP"
         IN  IF f.raises # "none" THEN Ok(fallback_skip(f.raises))
             ELSE Ok(GatekeeperResult(verdict, score.n, reasoning, "None"))

\* gatekeeper.py:265-322
parse_response(raw_text, score_threshold) ==
    LET parsed == decode(raw_text) IN
    IF parsed.raises # "none" THEN Ok(fallback_skip(parsed.raises))
    ELSE extract_fields(parsed.result, score_threshold)

\* What the scoring backend can do with one request.
BackendOutcomes ==
    { [transport |-> t, raw_text |-> << >>] :
        t \in {"timeout", "connect_error", "http_status", "body_not_json",
               "no_choices"} }
    \cup { [transport |-> "ok", raw_text |-> text] : text \in Texts }

evaluate_NoCatch(outcome, score_threshold) ==
    CASE outcome.transport = "http_status" ->
            Ok(GatekeeperResult("SKIP", 0, 28, "HTTP status"))
      [] outcome.transport = "ok" ->
            parse_response(outcome.raw_text, score_threshold)
      [] OTHER -> Ok(GatekeeperResult("SKIP", 0, 34, outcome.transport))

\* gatekeeper.py:209-250, for a candidate whose prompt can be built
\* (the reasoning of the two handlers is "LLM call failed - HTTP error",
\* 28 characters, and "LLM call failed - unexpected error", 34)
evaluate(outcome, score_threshold) ==
    CASE outcome.transport = "http_status" ->
            Ok(GatekeeperResult("SKIP", 0, 28, "HTTP status"))
      [] outcome.transport = "ok" ->
            LET r == parse_response(outcome.raw_text, score_threshold) IN
            IF r.raises = "none" THEN r
            ELSE Ok(GatekeeperResult("SKIP", 0, 34, r.raises))
      [] OTHER -> Ok(GatekeeperResult("SKIP", 0, 34, outcome.transport))

\* one evaluate call against the backend
\* gatekeeper.py:45-58: candidates that differ in the metadata shown to
\* the backend, in the fields not shown, and in the descriptions after the
\* fifth
CandidateDocuments ==
    { [deal_id |-> hidden[1], source |-> hidden[2],
       docket_entry_id |-> hidden[3], docket_title |-> docket_title,
       filing_date |-> "2023-01-15",
       attachment_descriptions |-> attachment_descriptions,
       resolved_pdf_url |-> hidden[4], api_calls_consumed |-> hidden[5]] :
          hidden \in {<<"d1", "courtlistener", "11", "url", 2>>,
                      <<"d2", "kroll", "22", "none", 0>>},
          docket_title \in {"First Day Declaration", "Fee Application"},
          attachment_descriptions \in
              {<< >>, <<"">>, <<"a">>, <<"a", "b", "c", "d", "e">>,
               <<"a", "b", "c", "d", "e", "f">>,
               <<"a", "b", "c", "d", "e", "g">>} }

\* gatekeeper.py:185-187: "; ".join(descriptions[:5]) or "None provided".
\* The joined text is kept as the list of its parts; it is empty when the
\* list is empty or holds one empty string.
join_descriptions_All(attachment_descriptions) ==
    IF attachment_descriptions \in {<< >>, <<"">>} THEN <<"None provided">>
    ELSE attachment_descriptions

join_descriptions(attachment_descriptions) ==
    LET first == SubSeq(attachment_descriptions, 1,
                        Min(5, Len(attachment_descriptions)))
    IN  IF first \in {<< >>, <<"">>} THEN <<"None provided">> ELSE first

\* gatekeeper.py:182-198: the payload; the model name, the temperature, the
\* token limit and the system prompt are the same for every candidate
build_payload(candidate) ==
    [temperature |-> 0,
     max_tokens |-> 150,
     filing_date |-> candidate.filing_date,
     docket_title |-> candidate.docket_title,
     attachment_descriptions |->
         join_descriptions(candidate.attachment_descriptions)]

EvaluateCall ==
    /\ variant = "gatekeeper"
    /\ gk_result = << >>
    /\ gk_request' = <<build_payload(gk_candidate)>>
    /\ gk_result' = <<evaluate(gk_outcome, gk_threshold)>>
    /\ UNCHANGED <<gk_threshold, gk_outcome, gk_candidate>>

-----------------------------------------------------------------------------
(* scout.py: scout_with_fallback, the browser-driven scout                 *)
(* Each source is modelled by what its call returns or raises.  Dates are  *)
(* day numbers; a date string is absent, parseable or not parseable.       *)

\* the number of results one source returns
MaxResults == 2

NoDate == [kind |-> "none", day |-> 0]

BadDate == [kind |-> "garbage", day |-> 0]

Date(day) == [kind |-> "date", day |-> day]

\* dateutil parse(s, fuzzy=True): the day, or a raised ValueError
parse_date(s) ==
    IF s.kind = "date" THEN [raises |-> FALSE, day |-> s.day]
    ELSE [raises |-> TRUE, day |-> 0]

\* shared/config.py:234-241 through tools.py:40-44: a URL is "allowed"
\* when one of the domain patterns is found in it, "off_list" when none is
validate_url_domain(url) ==
    IF url = "none" THEN TRUE ELSE url = "allowed"

Result(source, filing_date, url) ==
    [source |-> source, filing_date |-> filing_date,
     resolved_pdf_url |-> url, deal_id |-> "", api_calls_consumed |-> 0]

\* scout.py:177-199: the row link is any href of the row, the date a date
\* found in the row text or None
KrollResults ==
    { Result("kroll", d, "allowed") :
          d \in {NoDate, Date(90), Date(130), Date(131), Date(200)} }
    \cup { Result("kroll", NoDate, u) : u \in {"off_list", "none"} }

\* scout.py:248-260
StrettoResults ==
    { Result("stretto", NoDate, u) : u \in {"allowed", "off_list", "none"} }

\* scout.py:26-50, 306-311: the date cell is free text, the URL is put
\* under dm.epiq11.com
EpiqResults ==
    { Result("epiq", d, "allowed") : d \in {NoDate, BadDate, Date(131)} }

\* scout.py:341-360
NodriverResults ==
    { Result("epiq", NoDate, u) : u \in {"allowed", "off_list"} }

\* scout.py:431-444
RecapResults ==
    { Result("courtlistener", d, "allowed") : d \in {NoDate, Date(100), Date(131)} }
    \cup { Result("courtlistener", NoDate, "none") }

Lists(S) == UNION { [1..n -> S] : n \in 0..MaxResults }

Returned(source, results) ==
    [source |-> source, raises |-> FALSE, results |-> results]

Threw(source) == [source |-> source, raises |-> TRUE, results |-> << >>]

\* scout.py:87-217: every exception is caught inside scout_kroll
scout_kroll == { Returned("kroll", rs) : rs \in Lists(KrollResults) }

\* scout.py:219-266: the except handler takes a screenshot outside any try,
\* so a dead or hung page makes scout_stretto raise
scout_stretto ==
    { Returned("stretto", rs) : rs \in Lists(StrettoResults) }
    \cup { Threw("stretto") }

\* scout.py:289-324: slug resolution is outside the try, and the handler
\* re-raises
scout_epiq ==
    { Returned("epiq", rs) : rs \in Lists(EpiqResults) } \cup { Threw("epiq") }

\* scout.py:327-370: the browser is started outside the try
scout_epiq_nodriver_fallback ==
    { Returned("nodriver", rs) : rs \in Lists(NodriverResults) }
    \cup { Threw("nodriver") }

\* scout.py:419-447: the request and the decoding of its answer are inside
\* one try; a non-200 status or an exception adds nothing
recap_fallback ==
    { Returned("courtlistener", rs) : rs \in Lists(RecapResults) }
    \cup { Threw("courtlistener") }

\* A run of the function so far: the sources queried with their outcomes,
\* the results variable, and whether an exception left the function.
Run(trace, results, raised) ==
    [trace |-> trace, results |-> results, raised |-> raised]

\* scout.py:389-406
ClaimsAgentSwitch(deal) ==
    LET claims_agent == Get(deal, "claims_agent", "") IN
    CASE claims_agent = "kroll" ->
             { Run(<<o>>, o.results, FALSE) : o \in scout_kroll }
      [] claims_agent = "stretto" ->
             { Run(<<o>>, o.results, o.raises) : o \in scout_stretto }
      [] claims_agent = "epiq" ->
             LET first == { Run(<<o>>, o.results, FALSE) : o \in scout_epiq }
                 second ==
                     UNION { IF r.results # << >> THEN {r}
                             ELSE { Run(Append(r.trace, o), o.results, FALSE) :
                                        o \in scout_epiq } : r \in first }
             IN  UNION { IF r.results # << >> THEN {r}
                         ELSE { Run(Append(r.trace, o), o.results, o.raises) :
                                    o \in scout_epiq_nodriver_fallback } :
                         r \in second }
      [] OTHER -> { Run(<< >>, << >>, FALSE) }

\* scout.py:410-447
RecapFallback_Always(r) ==
    IF r.raised THEN {r}
    ELSE { Run(Append(r.trace, o), r.results \o o.results, FALSE) :
               o \in recap_fallback }

RecapFallback(r) ==
    IF r.raised \/ r.results # << >> THEN {r}
    ELSE { Run(Append(r.trace, o), o.results, FALSE) : o \in recap_fallback }

\* scout.py:449-476.  A petition date that cannot be parsed leaves the
\* results as they are.
PetitionDateGuard_Inclusive(deal, results) ==
    LET petition_date_str == Get(deal, "petition_date", NoDate)
        p_date == parse_date(petition_date_str)
        Keep(r) ==
            \/ r.filing_date.kind = "none"
            \/ parse_date(r.filing_date).raises
            \/ ~(parse_date(r.filing_date).day - p_date.day >= 30)
    IN  IF petition_date_str.kind = "none" \/ p_date.raises THEN results
        ELSE SelectSeq(results, Keep)

PetitionDateGuard(deal, results) ==
    LET petition_date_str == Get(deal, "petition_date", NoDate)
        p_date == parse_date(petition_date_str)
        Keep(r) ==
            \/ r.filing_date.kind = "none"
            \/ parse_date(r.filing_date).raises
            \/ ~(parse_date(r.filing_date).day - p_date.day > 30)
    IN  IF petition_date_str.kind = "none" \/ p_date.raises THEN results
        ELSE SelectSeq(results, Keep)

\* scout.py:478-481
Standardize(deal, results) ==
    [k \in 1..Len(results) |->
        [results[k] EXCEPT !.deal_id = deal.deal_id,
                           !.api_calls_consumed = 1]]

\* scout.py:373-483: the possible runs of scout_with_fallback for a deal
scout_with_fallback(deal) ==
    { IF r.raised THEN r
      ELSE Run(r.trace,
               Standardize(deal, PetitionDateGuard(deal, r.results)), FALSE) :
      r \in UNION { RecapFallback(a) : a \in ClaimsAgentSwitch(deal) } }

\* the deals handed to scout_with_fallback
ScoutDeals ==
    { [deal_id |-> "d1", company_name |-> "Acme", filing_year |-> 2023,
       claims_agent |-> a, petition_date |-> p] :
          a \in {"kroll", "stretto", "epiq", "other"},
          p \in {Date(100), BadDate} }
    \cup { [deal_id |-> "d2", company_name |-> "Beta", filing_year |-> 2023,
            claims_agent |-> "kroll"],
           [deal_id |-> "d2", company_name |-> "Beta", filing_year |-> 2023,
            petition_date |-> Date(100)] }

ScoutWithFallback ==
    /\ variant = "browser"
    /\ sc_deal # << >>
    /\ sc_result = << >>
    /\ \E r \in scout_with_fallback(sc_deal) :
           /\ sc_trace' = r.trace
           /\ sc_result' = <<[raises |-> r.raised, results |-> r.results]>>
    /\ UNCHANGED <<sc_deal, dl_response, dl_disk, dl_result>>

-----------------------------------------------------------------------------
(* fetcher.py: download_via_httpx_fallback, and the download of             *)
(* nodes.py: fetcher_node, as functions of what the server and the file     *)
(* system do.  Sizes are in bytes.                                          *)

\* shared/config.py:161, and the literal of fetcher.py:118
MAX_PDF_BYTES == 52428800

\* fetcher.py:115, nodes.py:322: aiter_bytes(chunk_size=8192)
CHUNK_SIZE == 8192

\* What a download meets: whether the directory can be made and the file
\* opened, what the request does, the length the server declares (-1 for
\* none) and the bytes it really sends.
Responses ==
    [mkdir : {"ok", "os_error"},
     transport : {"ok", "connect_error", "http_error", "stream_error"},
     open : {"ok", "os_error"},
     content_length : {-1, CHUNK_SIZE, MAX_PDF_BYTES + 1},
     body : {0, CHUNK_SIZE, MAX_PDF_BYTES, MAX_PDF_BYTES + 1,
             MAX_PDF_BYTES + CHUNK_SIZE + 5, 2 * MAX_PDF_BYTES}]

FetchReturn(by, success, size) ==
    [by |-> by, raises |-> FALSE, success |-> success,
     file_size_bytes |-> size]

FetchRaise(by) ==
    [by |-> by, raises |-> TRUE, success |-> FALSE, file_size_bytes |-> 0]

\* fetcher.py:114-119: chunks of CHUNK_SIZE bytes are written one by one and
\* the loop raises after the first chunk with which the running total
\* exceeds the ceiling.  Returns the bytes written and whether it raised.
StreamToDisk_Unlimited(body) == [written |-> body, aborted |-> FALSE]

StreamToDisk(body) ==
    IF body <= MAX_PDF_BYTES THEN [written |-> body, aborted |-> FALSE]
    ELSE [written |->
              Min(body, ((MAX_PDF_BYTES \div CHUNK_SIZE) + 1) * CHUNK_SIZE),
          aborted |-> TRUE]

\* fetcher.py:89-136: the result, and the bytes of the target file
download_via_httpx_fallback(response) ==
    LET by == "download_via_httpx_fallback"
        s == StreamToDisk(response.body)
    IN  IF response.mkdir # "ok" THEN [result |-> FetchRaise(by), disk |-> -1]
        ELSE IF response.transport \in {"connect_error", "http_error"}
        THEN [result |-> FetchReturn(by, FALSE, 0), disk |-> -1]
        ELSE IF response.open # "ok"
        THEN [result |-> FetchReturn(by, FALSE, 0), disk |-> -1]
        ELSE IF response.transport = "stream_error"
        THEN [result |-> FetchReturn(by, FALSE, 0), disk |-> 0]
        ELSE IF s.aborted
        THEN [result |-> FetchReturn(by, FALSE, 0), disk |-> s.written]
        ELSE [result |-> FetchReturn(by, TRUE, s.written), disk |-> s.written]

\* nodes.py:298-336: the response is read whole by client.get, the declared
\* length is the only size check, and the body is then written out
fetcher_download(response) ==
    LET by == "fetcher_node" IN
    IF response.mkdir # "ok" THEN [result |-> FetchRaise(by), disk |-> -1]
    ELSE IF response.transport # "ok"
    THEN [result |-> FetchReturn(by, FALSE, 0), disk |-> -1]
    ELSE IF response.content_length > MAX_PDF_BYTES
    THEN [result |-> FetchReturn(by, FALSE, 0), disk |-> -1]
    ELSE IF response.open # "ok"
    THEN [result |-> FetchReturn(by, FALSE, 0), disk |-> -1]
    ELSE [result |-> FetchReturn(by, TRUE, response.body),
          disk |-> response.body]

Download(d) ==
    /\ variant = "fetch"
    /\ dl_result = << >>
    /\ dl_result' = <<d.result>>
    /\ dl_disk' = d.disk
    /\ UNCHANGED <<dl_response, sc_deal, sc_trace, sc_result>>

DownloadViaHttpxFallback == Download(download_via_httpx_fallback(dl_response))

FetcherNodeDownload == Download(fetcher_download(dl_response))

-----------------------------------------------------------------------------
(* compare_worktrees.py                                                     *)
(* A report is a function from field names to values; a field the report   *)
(* file does not have is outside its domain.                                *)

\* the labels of WORKTREE_REPORT_PATHS, in dict order
WORKTREE_REPORT_PATHS == <<"A (RECAP API)", "B (Anti-Detect)", "C (Multi-Agent)">>

NoField == [k \in {} |-> 0]

\* the report files main may find: with or without an f1_score (in units of
\* 10^-4), with or without the leak count
LoadableReports ==
    { f @@ b :
        f \in {NoField} \cup {("f1_score" :> x) : x \in {0, 6667, 10000}},
        b \in {NoField}
              \cup {("already_processed_incorrectly_processed" :> x) :
                        x \in {0, 1}} }

exclusion_status(r) ==
    LET bad == Get(r, "already_processed_incorrectly_processed", -1) IN
    IF bad = 0 THEN "PASS"
    ELSE IF bad = -1 THEN "UNKNOWN"
    ELSE "FAIL"

integrity_check(r) ==
    LET tp == Get(r, "true_positives", 0)
        fp == Get(r, "false_positives", 0)
        fn == Get(r, "false_negatives", 0)
        tn == Get(r, "true_negatives", 0)
        already == Get(r, "deals_already_processed", 0)
        total == Get(r, "deals_total", 0)
        actual == tp + fp + fn + tn + already
    IN  IF total = 0 THEN "NO DATA"
        ELSE IF actual = total THEN "OK"
        ELSE "MISMATCH"

IsQualified_MissingPasses(r) ==
    Get(r, "already_processed_incorrectly_processed", 0) = 0

\* r.get("already_processed_incorrectly_processed", 1) == 0
IsQualified(r) == Get(r, "already_processed_incorrectly_processed", 1) = 0

\* max(qualified, key=f1_score): the first of the largest
max_f1(reports, qualified) ==
    LET key(k) == Get(reports[k][1], "f1_score", 0)
        i == CHOOSE i \in 1..Len(qualified) :
                 /\ \A j \in 1..Len(qualified) :
                        key(qualified[j]) <= key(qualified[i])
                 /\ \A j \in 1..(i - 1) :
                        key(qualified[j]) < key(qualified[i])
    IN  qualified[i]

\* what main prints: the two audit rows of the table, the disqualified
\* worktrees and the position of the winner (0 when none is declared); the rows that only
\* format report fields are left out
main_compare(reports) ==
    LET Positions == [k \in 1..Len(WORKTREE_REPORT_PATHS) |-> k]
        IsAvailable(k) == reports[k] # << >>
        Qualifies(k) == IsQualified(reports[k][1])
        Disqualifies(k) == ~IsQualified(reports[k][1])
        available == SelectSeq(Positions, IsAvailable)
        qualified == SelectSeq(available, Qualifies)
        disqualified == SelectSeq(available, Disqualifies)
    IN  IF available = << >>
        THEN [exclusion_audit |-> << >>, count_integrity |-> << >>,
              disqualified |-> << >>, winner |-> 0]
        ELSE [exclusion_audit |->
                  [k \in 1..Len(available) |->
                      exclusion_status(reports[available[k]][1])],
              count_integrity |->
                  [k \in 1..Len(available) |->
                      integrity_check(reports[available[k]][1])],
              disqualified |-> disqualified,
              winner |-> IF qualified = << >> THEN 0
                         ELSE max_f1(reports, qualified)]

CompareMain ==
    /\ variant = "compare"
    /\ cw_output = << >>
    /\ cw_output' = <<main_compare(cw_reports)>>
    /\ UNCHANGED cw_reports

-----------------------------------------------------------------------------
(* Specification *)

\* nothing of the browser-driven scout and download is running
BrowserIdle ==
    /\ sc_deal = << >>
    /\ sc_trace = << >>
    /\ sc_result = << >>
    /\ dl_response = << >>
    /\ dl_disk = -1
    /\ dl_result = << >>

\* compare_worktrees is not running
CompareIdle ==
    /\ cw_reports = << >>
    /\ cw_output = << >>

Init ==
    /\ variant \in {"straight", "graph"}
    /\ deals \in Datasets
    /\ variant = "graph" => Len(deals) = 1
    /\ ground_truth \in GroundTruths
    /\ variant = "graph" => ground_truth = GT_Agree
    /\ idx = 1
    /\ pc = IF variant = "straight" THEN "main" ELSE "graph"
    /\ api_calls_for_deal = 0
    /\ entries = << >>
    /\ resolved_pdf_url = "none"
    /\ is_available = FALSE
    /\ processed_count = 0
    /\ log = << >>
    /\ outcomes = [id \in DealIds |-> "none"]
    /\ api_calls_total = 0
    /\ llm_calls_total = 0
    /\ report = << >>
    /\ calls = << >>
    /\ budget_at = 0
    /\ log_at_budget = << >>
    /\ g_node = IF variant = "graph" THEN "exclusion_check" ELSE "idle"
    /\ g_state = InitialState(deals[1])
    /\ g_trace = << >>
    /\ gk_threshold = GATEKEEPER_SCORE_THRESHOLD
    /\ gk_outcome = << >>
    /\ gk_result = << >>
    /\ gk_candidate = << >>
    /\ gk_request = << >>
    /\ BrowserIdle
    /\ CompareIdle

Straight(A) ==
    A /\ UNCHANGED <<variant, deals, ground_truth, graphVars, gateVars,
                     browserVars, compareVars>>

Graph(A) ==
    A /\ UNCHANGED <<variant, deals, ground_truth, gateVars, browserVars, compareVars>>

Next ==
    \/ Straight(ProcessDealStart)
    \/ Straight(FindDocket)
    \/ Straight(FindDocketEntries)
    \/ Straight(GetRecapDocumentMetadata)
    \/ Straight(Evaluate)
    \/ Straight(DownloadRecapPdf)
    \/ Straight(Finalise)
    \/ Graph(exclusion_check_node)
    \/ Graph(scout_node)
    \/ Graph(gatekeeper_node)
    \/ Graph(fetcher_node)
    \/ Graph(fallback_node)
    \/ Graph(log_node)
    \/ Graph(telemetry_node)

Spec == Init /\ [][Next]_vars

\* The gatekeeper on its own: one evaluate call for every backend outcome
\* and every threshold.
GateInit ==
    /\ variant = "gatekeeper"
    /\ deals = << >>
    /\ ground_truth = GT_Agree
    /\ idx = 1
    /\ pc = "idle"
    /\ api_calls_for_deal = 0
    /\ entries = << >>
    /\ resolved_pdf_url = "none"
    /\ is_available = FALSE
    /\ processed_count = 0
    /\ log = << >>
    /\ outcomes = [id \in DealIds |-> "none"]
    /\ api_calls_total = 0
    /\ llm_calls_total = 0
    /\ report = << >>
    /\ calls = << >>
    /\ budget_at = 0
    /\ log_at_budget = << >>
    /\ g_node = "idle"
    /\ g_state = << >>
    /\ g_trace = << >>
    /\ gk_threshold \in Thresholds
    /\ gk_outcome \in BackendOutcomes
    /\ gk_result = << >>
    /\ gk_candidate \in CandidateDocuments
    /\ gk_request = << >>
    /\ BrowserIdle
    /\ CompareIdle

GateNext ==
    EvaluateCall /\ UNCHANGED <<variant, deals, ground_truth, mainVars,
                                graphVars, calls, browserVars, compareVars>>

GateSpec == GateInit /\ [][GateNext]_vars

\* Discovery on its own: one graph execution for one deal (scout_node), or
\* one call of scout_with_fallback for one deal.
BrowserInit ==
    /\ variant = "browser"
    /\ deals = << >>
    /\ ground_truth = GT_Agree
    /\ idx = 1
    /\ pc = "idle"
    /\ api_calls_for_deal = 0
    /\ entries = << >>
    /\ resolved_pdf_url = "none"
    /\ is_available = FALSE
    /\ processed_count = 0
    /\ log = << >>
    /\ outcomes = [id \in DealIds |-> "none"]
    /\ api_calls_total = 0
    /\ llm_calls_total = 0
    /\ report = << >>
    /\ calls = << >>
    /\ budget_at = 0
    /\ log_at_budget = << >>
    /\ g_node = "idle"
    /\ g_state = << >>
    /\ g_trace = << >>
    /\ gk_threshold = GATEKEEPER_SCORE_THRESHOLD
    /\ gk_outcome = << >>
    /\ gk_result = << >>
    /\ gk_candidate = << >>
    /\ gk_request = << >>
    /\ sc_deal \in ScoutDeals
    /\ sc_trace = << >>
    /\ sc_result = << >>
    /\ dl_response = << >>
    /\ dl_disk = -1
    /\ dl_result = << >>
    /\ CompareIdle

DiscoveryInit == (Init /\ variant = "graph") \/ BrowserInit

Browser(A) ==
    A /\ UNCHANGED <<variant, deals, ground_truth, mainVars, graphVars,
                     gateVars, calls, compareVars>>

DiscoveryNext ==
    \/ Graph(exclusion_check_node)
    \/ Graph(scout_node)
    \/ Graph(gatekeeper_node)
    \/ Graph(fetcher_node)
    \/ Graph(fallback_node)
    \/ Graph(log_node)
    \/ Graph(telemetry_node)
    \/ Browser(ScoutWithFallback)

DiscoverySpec == DiscoveryInit /\ [][DiscoveryNext]_vars

\* The downloads on their own: one call for every server behaviour.
FetchInit ==
    /\ variant = "fetch"
    /\ deals = << >>
    /\ ground_truth = GT_Agree
    /\ idx = 1
    /\ pc = "idle"
    /\ api_calls_for_deal = 0
    /\ entries = << >>
    /\ resolved_pdf_url = "none"
    /\ is_available = FALSE
    /\ processed_count = 0
    /\ log = << >>
    /\ outcomes = [id \in DealIds |-> "none"]
    /\ api_calls_total = 0
    /\ llm_calls_total = 0
    /\ report = << >>
    /\ calls = << >>
    /\ budget_at = 0
    /\ log_at_budget = << >>
    /\ g_node = "idle"
    /\ g_state = << >>
    /\ g_trace = << >>
    /\ gk_threshold = GATEKEEPER_SCORE_THRESHOLD
    /\ gk_outcome = << >>
    /\ gk_result = << >>
    /\ gk_candidate = << >>
    /\ gk_request = << >>
    /\ sc_deal = << >>
    /\ sc_trace = << >>
    /\ sc_result = << >>
    /\ dl_response \in Responses
    /\ dl_disk = -1
    /\ dl_result = << >>
    /\ CompareIdle

FetchNext ==
    \/ Browser(DownloadViaHttpxFallback)
    \/ Browser(FetcherNodeDownload)

FetchSpec == FetchInit /\ [][FetchNext]_vars

CompareInit ==
    /\ variant = "compare"
    /\ deals = << >>
    /\ ground_truth = GT_Agree
    /\ idx = 1
    /\ pc = "idle"
    /\ api_calls_for_deal = 0
    /\ entries = << >>
    /\ resolved_pdf_url = "none"
    /\ is_available = FALSE
    /\ processed_count = 0
    /\ log = << >>
    /\ outcomes = [id \in DealIds |-> "none"]
    /\ api_calls_total = 0
    /\ llm_calls_total = 0
    /\ report = << >>
    /\ calls = << >>
    /\ budget_at = 0
    /\ log_at_budget = << >>
    /\ g_node = "idle"
    /\ g_state = << >>
    /\ g_trace = << >>
    /\ gk_threshold = GATEKEEPER_SCORE_THRESHOLD
    /\ gk_outcome = << >>
    /\ gk_result = << >>
    /\ gk_candidate = << >>
    /\ gk_request = << >>
    /\ BrowserIdle
    /\ cw_reports \in [1..Len(WORKTREE_REPORT_PATHS) ->
           {<< >>} \cup {<<r>> : r \in LoadableReports}]
    /\ cw_output = << >>

CompareNext ==
    CompareMain /\ UNCHANGED <<variant, deals, ground_truth, mainVars,
                               graphVars, gateVars, calls, browserVars>>

CompareSpec == CompareInit /\ [][CompareNext]_vars

-----------------------------------------------------------------------------
(* The exclusion decision on its own: the entry node of the graph run on    *)
(* one deal record, for every shape of record the dataset file can hold.    *)

\* The records json.load can deliver (main.py:330): name and id present or
\* absent, in or out of the exclusion sets; under the key already_processed
\* true, false, the numbers 0 and 1, an empty and a non-empty string, null,
\* or no such key.
DealRecords ==
    LET names == {"Acme", "Party City", "Cano Health"}
        ids == {"d1", "party-city-2023", "incora-2023"}
        flags == {False, True,
                  [type |-> "int", value |-> 0], [type |-> "int", value |-> 1],
                  [type |-> "str", value |-> 0], [type |-> "str", value |-> 4],
                  [type |-> "NoneType", value |-> 0]}
        named == {[company_name |-> n] : n \in names} \cup {NoField}
        with_id == named \cup {d @@ [deal_id |-> i] : d \in named, i \in ids}
    IN  with_id
        \cup {d @@ [already_processed |-> f] : d \in with_id, f \in flags}

ExclusionInit ==
    /\ variant = "graph"
    /\ deals \in [1..1 -> DealRecords]
    /\ ground_truth = GT_Agree
    /\ idx = 1
    /\ pc = "graph"
    /\ api_calls_for_deal = 0
    /\ entries = << >>
    /\ resolved_pdf_url = "none"
    /\ is_available = FALSE
    /\ processed_count = 0
    /\ log = << >>
    /\ outcomes = [id \in DealIds |-> "none"]
    /\ api_calls_total = 0
    /\ llm_calls_total = 0
    /\ report = << >>
    /\ calls = << >>
    /\ budget_at = 0
    /\ log_at_budget = << >>
    /\ g_node = "exclusion_check"
    /\ g_state = InitialState(deals[1])
    /\ g_trace = << >>
    /\ gk_threshold = GATEKEEPER_SCORE_THRESHOLD
    /\ gk_outcome = << >>
    /\ gk_result = << >>
    /\ gk_candidate = << >>
    /\ gk_request = << >>
    /\ BrowserIdle
    /\ CompareIdle

ExclusionNext == Graph(exclusion_check_node)

ExclusionSpec == ExclusionInit /\ [][ExclusionNext]_vars

-----------------------------------------------------------------------------
(* shared/telemetry.py driven as a library: any caller may issue the        *)
(* logging calls in any order, for any deal and any status, and then ask    *)
(* for the report.                                                          *)

\* the number of logging calls before the report is asked for
MaxOps == 2

\* the deals the calls are made for: one the ground truth knows with data,
\* one without, one it marks already processed, and one without deal_id
LoggedDeals ==
    << [deal_id |-> "d1", company_name |-> "Acme", already_processed |-> False],
       [deal_id |-> "d2", company_name |-> "Beta", already_processed |-> False],
       [deal_id |-> "d3", company_name |-> "Gamma", already_processed |-> True],
       [company_name |-> "Delta", already_processed |-> True] >>

\* the status strings a caller passes to log_pipeline_terminal
PipelineStatuses ==
    {"ALREADY_PROCESSED", "DOWNLOADED", "SKIPPED", "NOT_FOUND", "FETCH_FAILED",
     "UNKNOWN"}

LogCall(t) ==
    /\ variant = "logger"
    /\ report = << >>
    /\ Len(log) < MaxOps
    /\ SetTel(t)
    /\ UNCHANGED report

LogExclusionSkip ==
    \E i \in 1..Len(deals) : LogCall(log_exclusion_skip(Tel, i))

LogScoutQuery ==
    \E i \in 1..Len(deals) : LogCall(log_scout_query(Tel, i, 1))

LogGatekeeperDecision ==
    \E i \in 1..Len(deals) : LogCall(log_gatekeeper_decision(Tel, i))

LogFetchResult ==
    \E i \in 1..Len(deals) : LogCall(log_fetch_result(Tel, i))

LogPipelineTerminal ==
    \E i \in 1..Len(deals), status \in PipelineStatuses, api \in {0, 1} :
        LogCall(log_pipeline_terminal(Tel, i, status, api, 0))

LogEvent ==
    \E i \in 1..Len(deals) : LogCall(log_event(Tel, i, "fallback_triggered"))

LogBudgetWarning == LogCall(log_budget_warning(Tel, 4000))

FinaliseCall ==
    /\ variant = "logger"
    /\ report = << >>
    /\ report' = <<finalise>>
    /\ UNCHANGED <<log, outcomes, api_calls_total, llm_calls_total>>

TelInit ==
    /\ variant = "logger"
    /\ deals = LoggedDeals
    /\ ground_truth \in GroundTruths
    /\ idx = 1
    /\ pc = "idle"
    /\ api_calls_for_deal = 0
    /\ entries = << >>
    /\ resolved_pdf_url = "none"
    /\ is_available = FALSE
    /\ processed_count = 0
    /\ log = << >>
    /\ outcomes = [id \in DealIds |-> "none"]
    /\ api_calls_total = 0
    /\ llm_calls_total = 0
    /\ report = << >>
    /\ calls = << >>
    /\ budget_at = 0
    /\ log_at_budget = << >>
    /\ g_node = "idle"
    /\ g_state = << >>
    /\ g_trace = << >>
    /\ gk_threshold = GATEKEEPER_SCORE_THRESHOLD
    /\ gk_outcome = << >>
    /\ gk_result = << >>
    /\ gk_candidate = << >>
    /\ gk_request = << >>
    /\ BrowserIdle
    /\ CompareIdle

Logger(A) ==
    A /\ UNCHANGED <<variant, deals, ground_truth, idx, pc, api_calls_for_deal,
                     entries, resolved_pdf_url, is_available, processed_count,
                     calls, budget_at, log_at_budget, graphVars, gateVars,
                     browserVars, compareVars>>

TelNext ==
    \/ Logger(LogExclusionSkip)
    \/ Logger(LogScoutQuery)
    \/ Logger(LogGatekeeperDecision)
    \/ Logger(LogFetchResult)
    \/ Logger(LogPipelineTerminal)
    \/ Logger(LogEvent)
    \/ Logger(LogBudgetWarning)
    \/ Logger(FinaliseCall)

TelSpec == TelInit /\ [][TelNext]_vars

-----------------------------------------------------------------------------
(* Vocabulary of the properties *)

TerminalStatuses ==
    {"ALREADY_PROCESSED", "DOWNLOADED", "SKIPPED", "NOT_FOUND", "FETCH_FAILED"}

\* the exclusion condition, spelled out
Excluded(deal) ==
    \/ deal.company_name \in EXCLUDED_DEALS
    \/ Get(deal, "deal_id", "") \in EXCLUDED_DEAL_IDS
    \/ deal.already_processed = True

\* positions in the event log of the events of the deal at dataset position i
EventsOf(i) == {k \in 1..Len(log) : log[k].deal = i}

TerminalsOf(i) ==
    {k \in EventsOf(i) : log[k].event_type = "PIPELINE_TERMINAL"}

\* process_deal has finished with the deal at dataset position i
Finished(i) ==
    /\ variant = "straight"
    /\ i \in 1..Len(deals)
    /\ i < idx \/ budget_at = i

\* the status of the terminal record of a finished deal
StatusOf(i) ==
    IF TerminalsOf(i) = {} THEN "NONE"
    ELSE log[CHOOSE k \in TerminalsOf(i) : TRUE].pipeline_status

CallsOf(i) == {k \in 1..Len(calls) : calls[k].deal = i}

Raised(i) == \E k \in CallsOf(i) : calls[k].res \in {"error", "budget"}

GraphEnded == variant = "graph" /\ g_node = "END"

Ran(node) == \E k \in 1..Len(g_trace) : g_trace[k] = node

-----------------------------------------------------------------------------
(* C1: in the straight-line pipeline every deal, on every control path     *)
(* (excluded, not found, skipped, fetch failed, downloaded, or an          *)
(* exception raised by a scout, gatekeeper or fetcher call), gets exactly  *)
(* one PIPELINE_TERMINAL event, with one of the five terminal statuses,    *)
(* and that event is the last event logged for the deal.                   *)
C1_OneTerminalPerDeal ==
    variant = "straight" =>
        \A i \in 1..Len(deals) :
            /\ Finished(i) => Cardinality(TerminalsOf(i)) = 1
            /\ ~Finished(i) => TerminalsOf(i) = {}
            /\ \A k \in TerminalsOf(i) :
                  /\ log[k].pipeline_status \in TerminalStatuses
                  /\ \A j \in EventsOf(i) : j <= k

\* a run ended in which one deal was downloaded and another one hit an
\* exception
C1_Witness ==
    /\ pc = "done"
    /\ \E i, j \in 1..Len(deals) :
          /\ i # j
          /\ Finished(i) /\ StatusOf(i) = "DOWNLOADED"
          /\ Finished(j) /\ Raised(j)

-----------------------------------------------------------------------------
(* C2: an excluded deal (company name in the exclusion set, deal id in the *)
(* exclusion id set, or already_processed flag true) ends                  *)
(* ALREADY_PROCESSED without any scout, gatekeeper or fetcher call, and    *)
(* the telemetry totals of API calls and gatekeeper calls are the same     *)
(* after the deal as before it.                                            *)
C2_ExcludedStep ==
    (/\ variant = "straight" /\ pc = "main" /\ idx <= Len(deals)
     /\ Excluded(deals[idx]))
    => /\ idx' = idx + 1
       /\ pc' \in {"main", "finalise"}
       /\ calls' = calls
       /\ api_calls_total' = api_calls_total
       /\ llm_calls_total' = llm_calls_total
       /\ log' # << >>
       /\ log'[Len(log')].event_type = "PIPELINE_TERMINAL"
       /\ log'[Len(log')].deal = idx
       /\ log'[Len(log')].pipeline_status = "ALREADY_PROCESSED"

C2_ExclusionIsFree ==
    /\ [][C2_ExcludedStep]_vars
    /\ [](\A i \in 1..Len(deals) :
            Finished(i) /\ Excluded(deals[i]) =>
                /\ CallsOf(i) = {}
                /\ StatusOf(i) = "ALREADY_PROCESSED")

\* an excluded deal was processed after a deal that consumed calls
C2_Witness ==
    /\ variant = "straight"
    /\ idx = 3
    /\ Excluded(deals[2])
    /\ api_calls_total > 0
    /\ llm_calls_total > 0

-----------------------------------------------------------------------------
(* C3: in the graph variant a deal that exclusion_check_node marks as      *)
(* excluded reaches END with final_status ALREADY_PROCESSED, and the       *)
(* scout, gatekeeper and fetcher nodes never run for it.                   *)
C3_GraphExcluded ==
    (GraphEnded /\ Excluded(g_state.deal)) =>
        /\ g_state.final_status = "ALREADY_PROCESSED"
        /\ ~Ran("scout") /\ ~Ran("gatekeeper") /\ ~Ran("fetcher")

-----------------------------------------------------------------------------
\* the recorded deal ids that ground truth marks already processed
MarkedAlready ==
    {id \in Recorded : ground_truth[id].present
                       /\ ground_truth[id].already_processed}

\* every dataset record whose deal id ground truth marks already processed
\* is one the exclusion condition covers
GroundTruthAgrees ==
    \A i \in 1..Len(deals) :
        (ground_truth[Get(deals[i], "deal_id", "unknown")].present
         /\ ground_truth[Get(deals[i], "deal_id", "unknown")].already_processed)
        => Excluded(deals[i])

-----------------------------------------------------------------------------
\* the calls that invoke the fetcher, and those that report success
IsFetch(c) == c.op \in {"download_recap_pdf", "fetch"}

FetchSucceeded(c) == IsFetch(c) /\ c.res \in {"success", "saved"}

Approved(c) == c.op = "evaluate" /\ c.res = "DOWNLOAD"

\* a DOWNLOAD verdict for deal i precedes position k of the call history
ApprovedBefore(i, k) ==
    \E j \in 1..(k - 1) : calls[j].deal = i /\ Approved(calls[j])

\* a DOWNLOAD verdict and then a successful fetch occurred for deal i
ApprovedThenFetched(i) ==
    \E k \in CallsOf(i) : FetchSucceeded(calls[k]) /\ ApprovedBefore(i, k)

(* C5: the fetcher is invoked for a deal only after the gatekeeper         *)
(* returned DOWNLOAD for that deal's candidate, and a deal's terminal      *)
(* status is DOWNLOADED only if a DOWNLOAD verdict and then a successful   *)
(* fetch occurred earlier for that deal; in both variants.                 *)
C5_FetchOnlyAfterDownloadVerdict ==
    /\ \A k \in 1..Len(calls) :
          IsFetch(calls[k]) => ApprovedBefore(calls[k].deal, k)
    /\ \A k \in 1..Len(log) :
          (log[k].event_type = "PIPELINE_TERMINAL"
           /\ log[k].pipeline_status = "DOWNLOADED")
          => ApprovedThenFetched(log[k].deal)
    /\ (variant = "graph" /\ Ran("fetcher")) => ApprovedBefore(1, Len(calls) + 1)
    /\ (GraphEnded /\ g_state.final_status = "DOWNLOADED")
          => ApprovedThenFetched(1)

\* a run in which one deal was downloaded and another one was skipped
C5_Witness ==
    /\ variant = "straight" /\ pc = "done"
    /\ \E i \in 1..Len(deals) : StatusOf(i) = "DOWNLOADED"
    /\ \E i \in 1..Len(deals) : StatusOf(i) = "SKIPPED"

\* the graph ended with a downloaded file
C5_WitnessGraph ==
    /\ GraphEnded /\ g_state.final_status = "DOWNLOADED"
    /\ Ran("fetcher")

-----------------------------------------------------------------------------
\* discovery for deal i came back without a usable candidate
NothingFound(i) ==
    \E k \in CallsOf(i) :
        \/ calls[k].op = "find_docket" /\ calls[k].res = "none"
        \/ calls[k].op = "find_docket_entries"
           /\ calls[k].res \in {"no_entries", "no_recap_documents"}
        \/ calls[k].op = "get_recap_document_metadata" /\ calls[k].res = "none"

GateOrFetchCalled(i) ==
    \E k \in CallsOf(i) : calls[k].op = "evaluate" \/ IsFetch(calls[k])

(* C6: when discovery yields no usable candidate for a non-excluded deal   *)
(* (no docket, no matching entries, no entry with documents, no document   *)
(* metadata in the straight-line variant; no candidates after the last     *)
(* scout attempt in the graph variant), the terminal status is NOT_FOUND   *)
(* and neither the gatekeeper nor the fetcher is invoked for the deal.     *)
C6_NothingFoundIsNotFound ==
    /\ \A i \in 1..Len(deals) :
          (Finished(i) /\ NothingFound(i)) =>
              /\ StatusOf(i) = "NOT_FOUND"
              /\ ~GateOrFetchCalled(i)
    /\ (GraphEnded /\ Ran("scout") /\ g_state.candidates = << >>) =>
          /\ g_state.final_status = "NOT_FOUND"
          /\ g_state.search_attempts = 3
          /\ ~Ran("gatekeeper") /\ ~Ran("fetcher")
          /\ ~GateOrFetchCalled(1)

\* the graph gave up after its last scout attempt
C6_WitnessGraph ==
    /\ GraphEnded
    /\ ~Excluded(g_state.deal)
    /\ g_state.candidates = << >>
    /\ g_state.search_attempts = 3

\* a run in which one deal had entries without documents and another one
\* had no document metadata
C6_Witness ==
    /\ variant = "straight" /\ pc = "done"
    /\ \E i, j \in 1..Len(deals) :
          /\ \E k \in CallsOf(i) : calls[k].res = "no_recap_documents"
          /\ \E k \in CallsOf(j) :
                /\ calls[k].op = "get_recap_document_metadata"
                /\ calls[k].res = "none"
          /\ StatusOf(i) = "NOT_FOUND" /\ StatusOf(j) = "NOT_FOUND"

-----------------------------------------------------------------------------
\* the candidates discovery returned, in source order: the entries that
\* carry documents
Candidates(es) == SelectSeq(es, LAMBDA e : e.recap_documents)

\* the step of process_deal that asks the gatekeeper
EvaluateStep == variant = "straight" /\ pc = "evaluate" /\ calls' # calls

EndsSkipped ==
    /\ log' # log
    /\ log'[Len(log')].event_type = "PIPELINE_TERMINAL"
    /\ log'[Len(log')].pipeline_status = "SKIPPED"

EvaluationsOf(i) == {k \in CallsOf(i) : calls[k].op = "evaluate"}

-----------------------------------------------------------------------------
\* what the fetch of deal i reported, "none" when no fetch returned
FetchReport(i) ==
    IF \E k \in CallsOf(i) : FetchSucceeded(calls[k]) THEN "success"
    ELSE IF \E k \in CallsOf(i) : IsFetch(calls[k]) /\ calls[k].res # "error"
                                   /\ calls[k].res # "os_error"
         THEN "failure"
    ELSE "none"

FetchRaised(i) ==
    \E k \in CallsOf(i) : IsFetch(calls[k]) /\ calls[k].res \in {"error", "os_error"}

WasApproved(i) == \E k \in CallsOf(i) : Approved(calls[k])

C8_WitnessGraph ==
    /\ GraphEnded /\ WasApproved(1)
    /\ g_state.final_status = "FETCH_FAILED"

-----------------------------------------------------------------------------
\* a step of process_deal in which an external call raised an exception
\* other than budget exhaustion
ErrorStep ==
    /\ variant = "straight"
    /\ Len(calls') = Len(calls) + 1
    /\ calls'[Len(calls')].res = "error"

(* C9: an exception other than budget exhaustion raised while process_deal *)
(* is processing a deal is caught inside process_deal, the deal gets       *)
(* terminal status NOT_FOUND, the exception does not reach main, and main  *)
(* goes on with the next deal of the dataset.                              *)
C9_ErrorsAreContained ==
    /\ [][ErrorStep =>
            /\ log'[Len(log')].event_type = "PIPELINE_TERMINAL"
            /\ log'[Len(log')].deal = idx
            /\ log'[Len(log')].pipeline_status = "NOT_FOUND"
            /\ outcomes'[Get(deals[idx], "deal_id", "unknown")] = "NOT_FOUND"
            /\ processed_count' = processed_count + 1
            /\ idx' = idx + 1
            /\ budget_at' = budget_at
            /\ pc' = IF idx < Len(deals) THEN "main" ELSE "finalise"]_vars
    /\ [](\A i \in 1..Len(deals) :
            (Finished(i) /\ Raised(i) /\ budget_at # i) =>
                StatusOf(i) = "NOT_FOUND")
    /\ []((variant = "straight" /\ pc = "done" /\ budget_at = 0) =>
            /\ processed_count = Len(deals)
            /\ \A i \in 1..Len(deals) : Finished(i))

\* a deal was downloaded after an earlier deal hit an exception
C9_Witness ==
    /\ variant = "straight" /\ pc = "done"
    /\ Raised(1) /\ budget_at = 0
    /\ Len(deals) = 2
    /\ StatusOf(2) = "DOWNLOADED"

-----------------------------------------------------------------------------
IsPrefix(a, b) == Len(a) <= Len(b) /\ SubSeq(b, 1, Len(a)) = a

(* C10: when budget exhaustion is raised while deal k is processed, a      *)
(* PIPELINE_TERMINAL record for deal k is written before the exception     *)
(* leaves process_deal, no deal after k is processed or issues an external *)
(* call, the records already in the event log are unchanged, and finalise  *)
(* still runs and writes the report.                                       *)
C10_BudgetExhaustionStopsCleanly ==
    (variant = "straight" /\ \E k \in 1..Len(calls) : calls[k].res = "budget")
    => /\ budget_at = calls[Len(calls)].deal
       /\ calls[Len(calls)].res = "budget"
       /\ Len(log) = Len(log_at_budget) + 1
       /\ IsPrefix(log_at_budget, log)
       /\ log[Len(log)].event_type = "PIPELINE_TERMINAL"
       /\ log[Len(log)].deal = budget_at
       /\ Cardinality(TerminalsOf(budget_at)) = 1
       /\ \A i \in (budget_at + 1)..Len(deals) :
             EventsOf(i) = {} /\ CallsOf(i) = {}
       /\ idx = budget_at
       /\ pc \in {"finalise", "done"}
       /\ pc = "done" => report # << >>

\* the budget ran out on the first of two deals and the report was written
C10_Witness ==
    /\ variant = "straight" /\ pc = "done"
    /\ budget_at = 1 /\ Len(deals) = 2
    /\ Len(log) >= 2
    /\ report # << >>

-----------------------------------------------------------------------------
(* C11: deals are processed one at a time in dataset order: the next deal   *)
(* is started only after the PIPELINE_TERMINAL event of the current deal    *)
(* is in the event log, so the events of two deals never interleave: every  *)
(* event either belongs to the same deal as the event before it, which is   *)
(* then not a terminal event, or opens the next deal of the dataset right   *)
(* after the terminal event of the deal before it.                          *)
C11_OneDealAtATime ==
    variant = "straight" =>
        /\ \A k \in 1..(Len(log) - 1) :
              IF log[k].event_type = "PIPELINE_TERMINAL"
              THEN log[k + 1].deal = log[k].deal + 1
              ELSE log[k + 1].deal = log[k].deal
        /\ Len(log) > 0 => log[1].deal = 1 /\ log[Len(log)].deal <= idx
        /\ pc = "main" => \A i \in 1..(idx - 1) : TerminalsOf(i) # {}
        /\ (pc \notin {"main", "finalise", "done"}) =>
              /\ TerminalsOf(idx) = {}
              /\ \A i \in 1..(idx - 1) : TerminalsOf(i) # {}

\* two deals were processed, each with several events in the log
C11_Witness ==
    /\ variant = "straight" /\ pc = "done"
    /\ Len(deals) = 2
    /\ Cardinality(EventsOf(1)) >= 3
    /\ Cardinality(EventsOf(2)) >= 3

-----------------------------------------------------------------------------
(* Vocabulary of the gatekeeper properties *)

\* evaluate has been called and this is what came back
Evaluated == variant = "gatekeeper" /\ gk_result # << >>

\* the backend answered and the text of the answer decodes to a value
Decodes ==
    /\ gk_outcome.transport = "ok"
    /\ decode(gk_outcome.raw_text).raises = "none"

Decoded == decode(gk_outcome.raw_text).result

\* the answer decodes to a record
DecodesToRecord == Decodes /\ Decoded.type = "object"

\* a score cut to the range from 0 to 1
Clamped(n) == IF n < 0 THEN 0 ELSE IF n > 100 THEN 100 ELSE n

\* the fail-closed result: SKIP, score 0.0, error set
FailClosed(result) ==
    /\ result.verdict = "SKIP"
    /\ result.score = 0
    /\ result.error # "None"

(* C12: for every backend response that decodes to a record with a numeric *)
(* score, the verdict of evaluate is DOWNLOAD when the score, clamped to    *)
(* [0,1], is at least the configured threshold and SKIP otherwise, whatever *)
(* verdict the response itself states; the result carries the clamped       *)
(* score and no error.                                                      *)
C12_VerdictIsScoreDerived ==
    (Evaluated /\ DecodesToRecord /\ Decoded.score.type = "number") =>
        /\ gk_result[1].raises = "none"
        /\ gk_result[1].result.score = Clamped(Decoded.score.n)
        /\ gk_result[1].result.verdict =
              (IF Clamped(Decoded.score.n) >= gk_threshold
               THEN "DOWNLOAD" ELSE "SKIP")
        /\ gk_result[1].result.error = "None"

\* a fenced record states SKIP with a score above the range and is approved
C12_Witness ==
    /\ Evaluated /\ DecodesToRecord
    /\ gk_outcome.raw_text[1].kind = "fence"
    /\ Decoded.score = [type |-> "number", n |-> 150]
    /\ Decoded.verdict = "SKIP"
    /\ gk_threshold = GATEKEEPER_SCORE_THRESHOLD
    /\ gk_result[1].result.verdict = "DOWNLOAD"

(* C13: evaluate never raises, and for every failed backend outcome - a     *)
(* timeout or connection error, a non-2xx status, a body that is not JSON   *)
(* or lacks the choices structure, a text from which no JSON value can be   *)
(* decoded, or a decoded value that is not an object - it returns verdict   *)
(* SKIP, score 0.0 and the error field set.                                 *)
C13_EvaluateFailsClosed ==
    Evaluated =>
        /\ gk_result[1].raises = "none"
        /\ (gk_outcome.transport # "ok" \/ ~DecodesToRecord) =>
              FailClosed(gk_result[1].result)

\* the answer was valid JSON, but a list and not an object
C13_Witness ==
    /\ Evaluated /\ Decodes
    /\ Decoded.type = "list"
    /\ FailClosed(gk_result[1].result)
    /\ gk_result[1].result.error = "AttributeError"

\* the score of a decoded record fails validation as the claim lists it:
\* missing, not a number, or a number outside [0,1]
ScoreFailsValidation ==
    /\ DecodesToRecord
    /\ \/ Decoded.score.type # "number"
       \/ Decoded.score.n < 0
       \/ Decoded.score.n > 100

(* C14 as stated: a decoded record whose score is missing, not numeric or   *)
(* outside [0,1] yields verdict SKIP, score 0.0 and the error field set.    *)
C14_InvalidScoreFailsClosed ==
    (Evaluated /\ ScoreFailsValidation) => FailClosed(gk_result[1].result)

(* C14, amended: for a decoded record, a score that float() cannot convert  *)
(* (a non-numeric string, null) yields verdict SKIP, score 0.0 and the      *)
(* error field set; a missing score is read as 0.0 and a number outside     *)
(* [0,1] is clamped into [0,1], and both yield the verdict the threshold    *)
(* rule gives for that score, with no error set.                            *)
C14_OnlyUnconvertibleScoreFailsClosed ==
    (Evaluated /\ DecodesToRecord) =>
        LET s == Decoded.score
            r == gk_result[1].result
            ByThreshold(n) ==
                /\ r.score = n
                /\ r.verdict = (IF n >= gk_threshold THEN "DOWNLOAD" ELSE "SKIP")
                /\ r.error = "None"
        IN  /\ gk_result[1].raises = "none"
            /\ s.type \in {"string", "null"} => FailClosed(r)
            /\ s.type = "absent" => ByThreshold(0)
            /\ (s.type = "number" /\ s.n < 0) => ByThreshold(0)
            /\ (s.type = "number" /\ s.n > 100) => ByThreshold(100)

\* a record without a score came back as a plain SKIP with no error, and
\* under threshold 0 as a DOWNLOAD
C14_Witness ==
    /\ Evaluated /\ DecodesToRecord
    /\ Decoded.score.type = "absent"
    /\ gk_threshold = 0
    /\ gk_result[1].result = GatekeeperResult("DOWNLOAD", 0, 60, "None")

-----------------------------------------------------------------------------
(* Vocabulary of the report properties *)

ReportWritten == report # << >>

\* the classification the claim's table gives; the table does not say what
\* a status outside it yields for a deal ground truth knows
Tabulated(deal_id, status) ==
    LET truth == ground_truth[deal_id] IN
    CASE ~truth.present -> "UNCLASSIFIED"
      [] truth.present /\ truth.already_processed -> "ALREADY_PROCESSED"
      [] OTHER ->
           CASE status = "DOWNLOADED" /\ truth.has_financial_data
                   -> "TRUE_POSITIVE"
             [] status = "DOWNLOADED" /\ ~truth.has_financial_data
                   -> "FALSE_POSITIVE"
             [] status \in {"SKIPPED", "NOT_FOUND"} /\ ~truth.has_financial_data
                   -> "TRUE_NEGATIVE"
             [] status \in {"SKIPPED", "NOT_FOUND"} /\ truth.has_financial_data
                   -> "FALSE_NEGATIVE"
             [] status = "FETCH_FAILED" /\ truth.has_financial_data
                   -> "FALSE_NEGATIVE"
             [] status = "FETCH_FAILED" /\ ~truth.has_financial_data
                   -> "TRUE_NEGATIVE"

(* C15: classify(deal_id, status) returns UNCLASSIFIED when the deal id is  *)
(* absent from ground truth; otherwise ALREADY_PROCESSED when ground truth  *)
(* marks the deal already processed, whatever the status; otherwise         *)
(* TRUE_POSITIVE / FALSE_POSITIVE for DOWNLOADED with / without financial   *)
(* data, TRUE_NEGATIVE / FALSE_NEGATIVE for SKIPPED or NOT_FOUND without /  *)
(* with financial data, and FALSE_NEGATIVE / TRUE_NEGATIVE for FETCH_FAILED *)
(* with / without financial data; the report counts follow it.              *)
C15_ClassifyTable ==
    /\ \A id \in DealIds, status \in PipelineStatuses :
          (\/ ~ground_truth[id].present
           \/ ground_truth[id].already_processed
           \/ status \in {"DOWNLOADED", "SKIPPED", "NOT_FOUND", "FETCH_FAILED"})
          => classify(id, status) = Tabulated(id, status)
    /\ ReportWritten =>
          \A c \in {"TRUE_POSITIVE", "FALSE_POSITIVE", "TRUE_NEGATIVE",
                    "FALSE_NEGATIVE"} :
              Cardinality({id \in Recorded :
                  /\ outcomes[id] \in {"DOWNLOADED", "SKIPPED", "NOT_FOUND",
                                       "FETCH_FAILED"}
                  /\ Tabulated(id, outcomes[id]) = c})
              = CASE c = "TRUE_POSITIVE" -> report[1].true_positives
                  [] c = "FALSE_POSITIVE" -> report[1].false_positives
                  [] c = "TRUE_NEGATIVE" -> report[1].true_negatives
                  [] c = "FALSE_NEGATIVE" -> report[1].false_negatives

\* a report with a failed fetch counted as a false negative for a deal with
\* financial data and a download counted as a false positive for one without
C15_Witness ==
    /\ variant = "logger" /\ ReportWritten
    /\ outcomes["d1"] = "FETCH_FAILED" /\ ground_truth["d1"].has_financial_data
    /\ ~ground_truth["d1"].already_processed
    /\ outcomes["d2"] = "DOWNLOADED" /\ ground_truth["d2"].present
    /\ report[1].false_negatives = 1
    /\ report[1].false_positives = 1

(* C16: in every report finalise writes, after any sequence of logging      *)
(* calls, true_positives + false_positives + false_negatives +              *)
(* true_negatives + deals_already_processed + unclassified equals           *)
(* deals_total.                                                             *)
C16_CountIntegrity ==
    ReportWritten =>
        /\ report[1].true_positives + report[1].false_positives
           + report[1].false_negatives + report[1].true_negatives
           + report[1].deals_already_processed + report[1].unclassified
           = report[1].deals_total

\* a report over two deals, one of them recorded under a status that is no
\* terminal status
C16_Witness ==
    /\ variant = "logger" /\ ReportWritten
    /\ report[1].deals_total = 2
    /\ report[1].unclassified >= 1
    /\ \E id \in Recorded : outcomes[id] = "UNKNOWN" /\ ground_truth[id].present

-----------------------------------------------------------------------------
\* the recorded deals that ground truth marks already processed and whose
\* recorded status is something else
Leaked == {id \in MarkedAlready : outcomes[id] # "ALREADY_PROCESSED"}

(* C18: already_processed_incorrectly_processed in the report is the number *)
(* of recorded deals that ground truth marks already processed and whose    *)
(* recorded terminal status is not ALREADY_PROCESSED, and                   *)
(* already_processed_correctly_excluded plus                                *)
(* already_processed_incorrectly_processed is deals_already_processed.      *)
C18_LeakageAudit ==
    ReportWritten =>
        /\ report[1].already_processed_incorrectly_processed
           = Cardinality(Leaked)
        /\ report[1].already_processed_correctly_excluded
           + report[1].already_processed_incorrectly_processed
           = report[1].deals_already_processed
        /\ report[1].deals_already_processed = Cardinality(MarkedAlready)

\* a report with one marked deal excluded and one marked deal downloaded
C18_Witness ==
    /\ variant = "logger" /\ ReportWritten
    /\ outcomes["d3"] = "ALREADY_PROCESSED"
    /\ outcomes["d1"] = "DOWNLOADED"
    /\ report[1].already_processed_correctly_excluded = 1
    /\ report[1].already_processed_incorrectly_processed = 1

-----------------------------------------------------------------------------
\* the deals of the dataset the run processed: those with a terminal event
Processed == {i \in 1..Len(deals) : TerminalsOf(i) # {}}

\* the straight-line run is over and the report is written
RunCompleted == variant = "straight" /\ pc = "done"

(* C17: after a completed run, deals_total in the report is the number of   *)
(* deals the run processed, and each processed deal is classified exactly   *)
(* once: the six classification counts add up to that number, also for      *)
(* deals with a missing or repeated deal_id.                                *)
C17_EveryDealCountedOnce ==
    RunCompleted =>
        /\ report[1].deals_total = Cardinality(Processed)
        /\ report[1].true_positives + report[1].false_positives
           + report[1].false_negatives + report[1].true_negatives
           + report[1].deals_already_processed + report[1].unclassified
           = Cardinality(Processed)

-----------------------------------------------------------------------------
\* the sum of total_api_calls_this_deal over the PIPELINE_TERMINAL events
\* among the first k events of the log
RECURSIVE TerminalApiCalls(_)
TerminalApiCalls(k) ==
    IF k = 0 THEN 0
    ELSE TerminalApiCalls(k - 1)
         + (IF log[k].event_type = "PIPELINE_TERMINAL"
            THEN log[k].total_api_calls_this_deal ELSE 0)

(* C19: total_api_calls in the report counts every external discovery call  *)
(* of the run exactly once: it is the sum, over all deals, of the           *)
(* total_api_calls_this_deal value of the deal's PIPELINE_TERMINAL event.   *)
C19_ApiCallsCountedOnce ==
    RunCompleted => report[1].total_api_calls = TerminalApiCalls(Len(log))

-----------------------------------------------------------------------------
\* the positions in the call history of the runs of scout_node
ScoutRuns == {k \in 1..Len(calls) : calls[k].op = "scout"}

(* C20: each invocation of scout_node sends at most                        *)
(* MAX_KEYWORD_QUERIES_PER_DEAL (6) search requests to the CourtListener    *)
(* source, and sends no request after the first one that yields a candidate *)
(* with a document URL; the requests it counts are the requests it sent.    *)
C20_ScoutQueriesAreCapped ==
    /\ \A k \in ScoutRuns :
          LET q == calls[k].queries IN
          /\ Len(q) <= MAX_KEYWORD_QUERIES_PER_DEAL
          /\ \A j \in 1..(Len(q) - 1) : q[j] = "miss"
          /\ calls[k].res = "found" <=> (Len(q) > 0 /\ q[Len(q)] = "hit")
    /\ (variant = "graph" /\ g_node # "ABORTED") =>
          /\ Cardinality(ScoutRuns) = g_state.search_attempts
          /\ g_state.api_calls_used <=
                MAX_KEYWORD_QUERIES_PER_DEAL * g_state.search_attempts

\* after two requests without a candidate the third one yielded one, and
\* scout_node stopped there
C20_Witness ==
    /\ variant = "graph"
    /\ \E k \in ScoutRuns : calls[k].queries = <<"miss", "miss", "hit">>
    /\ g_state.api_calls_used = 3
    /\ Len(g_state.candidates) = 1


-----------------------------------------------------------------------------
(* Vocabulary of the discovery properties *)

\* scout_with_fallback has returned or raised
Scouted == variant = "browser" /\ sc_result # << >>

\* the positions of the event log of calls at which the browser tool ran
BrowserToolRuns == {k \in 1..Len(calls) : calls[k].op = "browser"}

\* the source queried at position k of the trace found nothing
FoundNothing(k) == sc_trace[k].raises \/ sc_trace[k].results = << >>

(* C21: a lower-priority discovery source is queried only when every       *)
(* higher-priority source returned no candidate for the deal: scout_node   *)
(* runs the claims-agent browser tool only right after CourtListener       *)
(* queries that produced no candidate, and scout_with_fallback queries a   *)
(* source (in the end the CourtListener fallback) only if every source it  *)
(* queried before returned no result.                                      *)
C21_NextSourceOnlyAfterNothing ==
    /\ \A k \in BrowserToolRuns :
           /\ k > 1
           /\ calls[k - 1].op = "scout"
           /\ calls[k - 1].deal = calls[k].deal
           /\ calls[k - 1].res = "none"
           /\ \A q \in 1..Len(calls[k - 1].queries) :
                  calls[k - 1].queries[q] = "miss"
    /\ \A k \in 1..Len(sc_trace) : \A j \in 1..(k - 1) : FoundNothing(j)

C21_Witness ==
    /\ Scouted
    /\ Len(sc_trace) = 2
    /\ sc_trace[1].source = "kroll"
    /\ sc_trace[2].source = "courtlistener"
    /\ sc_trace[2].results # << >>
    /\ sc_result[1].results # << >>

C21_WitnessGraph ==
    /\ GraphEnded
    /\ BrowserToolRuns # {}
    /\ g_state.final_status = "NOT_FOUND"

(* C22: a network error or timeout raised by one discovery source or        *)
(* sub-query never aborts discovery for the deal: it counts as that source  *)
(* having found nothing, the scout goes on with the next sub-query or       *)
(* source and returns normally, so neither scout_node nor                   *)
(* scout_with_fallback ever lets such an error out.                         *)
C22_DiscoveryErrorsAreContained ==
    /\ \A k \in ScoutRuns : calls[k].res # "raise"
    /\ Scouted => ~sc_result[1].raises

(* C23: no candidate whose resolved_pdf_url fails to match the allow-list   *)
(* of domain patterns is handed on towards the gatekeeper or the fetcher:   *)
(* every candidate the scout returns, from whichever source, has no URL or  *)
(* a URL that matches the allow-list.                                       *)
C23_OnlyAllowedDomains ==
    /\ \A k \in 1..Len(g_trace) :
           g_trace[k] \in {"gatekeeper", "fetcher"} =>
               \A c \in 1..Len(g_state.candidates) :
                   g_state.candidates[c].resolved_pdf_url \in {"none", "url"}
    /\ Scouted =>
           \A k \in 1..Len(sc_result[1].results) :
               validate_url_domain(sc_result[1].results[k].resolved_pdf_url)

\* what scout_with_fallback held in results before the petition date guard:
\* the results of the last source it queried
FoundBeforeGuard ==
    IF sc_trace = << >> THEN << >> ELSE sc_trace[Len(sc_trace)].results

\* the fields a source produced, without those the last step fills in
AsFound(results) ==
    [k \in 1..Len(results) |->
        [results[k] EXCEPT !.deal_id = "", !.api_calls_consumed = 0]]

\* the result was filed more than 30 days after the petition date
FiledTooLate(r) ==
    /\ r.filing_date.kind = "date"
    /\ r.filing_date.day > sc_deal.petition_date.day + 30

HasPetitionDate ==
    /\ "petition_date" \in DOMAIN sc_deal
    /\ sc_deal.petition_date.kind = "date"

NotTooLate(r) == ~FiledTooLate(r)

(* C24: when the deal has a petition date, scout_with_fallback removes      *)
(* exactly the results whose filing date is more than 30 days after the     *)
(* petition date; results filed exactly 30 days after it or earlier, also   *)
(* before it, and results with no or an unparseable filing date are kept,   *)
(* in their original order.                                                 *)
C24_PetitionDateGuard ==
    (Scouted /\ ~sc_result[1].raises /\ HasPetitionDate) =>
        AsFound(sc_result[1].results) = SelectSeq(FoundBeforeGuard, NotTooLate)

C24_Witness ==
    /\ Scouted
    /\ HasPetitionDate
    /\ Len(FoundBeforeGuard) = 2
    /\ FoundBeforeGuard[1].filing_date = Date(sc_deal.petition_date.day + 31)
    /\ FoundBeforeGuard[2].filing_date = Date(sc_deal.petition_date.day + 30)
    /\ Len(sc_result[1].results) = 1
    /\ sc_result[1].results[1].filing_date = FoundBeforeGuard[2].filing_date

-----------------------------------------------------------------------------
(* Vocabulary of the download properties *)

Fetched == variant = "fetch" /\ dl_result # << >>

\* the server really sends more bytes than the ceiling allows
Oversize ==
    /\ dl_response.mkdir = "ok"
    /\ dl_response.open = "ok"
    /\ dl_response.transport = "ok"
    /\ dl_response.body > MAX_PDF_BYTES

(* C25: a fetch whose actual byte count exceeds the 50 MB ceiling leaves no *)
(* file on disk and reports failure, also when the server declares no       *)
(* content length or a smaller one.                                         *)
C25_OversizeLeavesNoFile ==
    (Fetched /\ Oversize) =>
        /\ dl_disk = -1
        /\ ~dl_result[1].raises
        /\ ~dl_result[1].success

\* the fetch calls that did not deliver the file
FailedFetches ==
    {k \in 1..Len(calls) : IsFetch(calls[k]) /\ ~FetchSucceeded(calls[k])}

(* C26: every fetch failure (an HTTP error status, oversize content, a      *)
(* network error or a file I/O error) is reported as an unsuccessful fetch  *)
(* and not as an exception, the terminal status of the deal is              *)
(* FETCH_FAILED, and the run goes on with the next deal.                    *)
C26_FetchFailuresAreReported ==
    \A k \in FailedFetches :
        /\ ~FetchRaised(calls[k].deal)
        /\ g_node # "ABORTED"
        /\ Finished(calls[k].deal) => StatusOf(calls[k].deal) = "FETCH_FAILED"
        /\ GraphEnded => g_state.final_status = "FETCH_FAILED"

-----------------------------------------------------------------------------
(* Vocabulary of the event log properties *)

\* the fields every record of the event log carries
CompleteRecord(e) ==
    /\ DOMAIN e = {"event_type", "deal", "deal_id", "pipeline_status",
                   "total_api_calls_this_deal", "total_llm_calls_this_deal"}
    /\ e.event_type # ""

\* a logging call of the logger used as a library
LoggingStep == variant = "logger" /\ report' = report

FinaliseStep == variant = "logger" /\ report' # report

(* C27: every telemetry logging operation appends exactly one complete      *)
(* record to the end of the event log and leaves every record written       *)
(* before unchanged; finalise writes only the report and does not touch the *)
(* event log.                                                               *)
C27_EventLogIsAppendOnly ==
    [][ /\ LoggingStep =>
            /\ Len(log') = Len(log) + 1
            /\ SubSeq(log', 1, Len(log)) = log
            /\ CompleteRecord(log'[Len(log')])
        /\ FinaliseStep =>
            /\ log' = log
            /\ report = << >>
            /\ Len(report') = 1 ]_vars

C27_Witness ==
    /\ variant = "logger"
    /\ ReportWritten
    /\ Len(log) = 2
    /\ log[1].event_type = "PIPELINE_TERMINAL"
    /\ log[2].event_type = "BUDGET_WARNING"

-----------------------------------------------------------------------------
(* Vocabulary of the request properties *)

FirstFive(c) ==
    SubSeq(c.attachment_descriptions, 1, Min(5, Len(c.attachment_descriptions)))

\* the two candidates agree on docket title, filing date and the first five
\* attachment descriptions
SameMetadata(c1, c2) ==
    /\ c1.docket_title = c2.docket_title
    /\ c1.filing_date = c2.filing_date
    /\ FirstFive(c1) = FirstFive(c2)

\* the candidates that agree with the evaluated one on the metadata and
\* differ from it in deal id, source, URL or a later description
Twins ==
    {c \in CandidateDocuments : c # gk_candidate /\ SameMetadata(c, gk_candidate)}

-----------------------------------------------------------------------------
\* the evaluate invocations of the run, and those that returned a result
EvaluateInvocations == {k \in 1..Len(calls) : calls[k].op = "evaluate"}

EvaluationsReturned == {k \in EvaluateInvocations : calls[k].res # "error"}

-----------------------------------------------------------------------------
(* Vocabulary of the metric properties *)

\* v, a metric of the report in units of 10^-k, is the quotient n / d
Quotient(v, n, d, k) == v * d = n * 10 ^ k

\* v is the quotient n / d rounded to k decimal places
RoundedQuotient(v, n, d, k) ==
    LET e == v * d - n * 10 ^ k IN 2 * e <= d /\ -2 * e <= d

\* the five metrics of the report against its own counts: each is 0 when its
\* denominator is 0 and otherwise stands to its quotient as Is says
\* (precision + recall is 0 exactly when there is no true positive, and
\* otherwise 2PR/(P+R) is 2TP/(2TP+FP+FN))
MetricsAre(Is(_, _, _, _)) ==
    LET r == report[1]
        tp == r.true_positives
        fp == r.false_positives
        fn == r.false_negatives
        tn == r.true_negatives
        Metric(v, n, d, k) == IF d = 0 THEN v = 0 ELSE Is(v, n, d, k)
    IN  /\ Metric(r.precision, tp, tp + fp, 4)
        /\ Metric(r.recall, tp, tp + fn, 4)
        /\ Metric(r.f1_score, 2 * tp, IF tp = 0 THEN 0 ELSE 2 * tp + fp + fn, 4)
        /\ Metric(r.decoy_filter_rate, tn, tn + fp, 4)
        /\ Metric(r.api_efficiency, tp, r.total_api_calls, 6)

(* C30 as stated: in every report finalise writes, precision, recall,       *)
(* f1_score, decoy_filter_rate and api_efficiency are each 0 when their     *)
(* denominator is 0, and otherwise equal TP/(TP+FP), TP/(TP+FN), 2PR/(P+R), *)
(* TN/(TN+FP) and TP/total_api_calls.                                       *)
C30_MetricsAreTheQuotients ==
    (variant = "logger" /\ ReportWritten) => MetricsAre(Quotient)

(* C30: in every report finalise writes, precision, recall, f1_score,       *)
(* decoy_filter_rate and api_efficiency are each 0 when their denominator   *)
(* is 0, and otherwise TP/(TP+FP), TP/(TP+FN), 2PR/(P+R) and TN/(TN+FP)     *)
(* rounded to 4 decimal places and TP/total_api_calls rounded to 6.         *)
C30_MetricsAreTheRoundedQuotients ==
    (variant = "logger" /\ ReportWritten) => MetricsAre(RoundedQuotient)

\* a report over one true and one false positive found without any counted
\* API call: precision 0.5, recall 1, f1_score 0.6667, and decoy_filter_rate
\* 0 over one decoy, api_efficiency 0 over no calls
C30_Witness ==
    /\ variant = "logger"
    /\ ReportWritten
    /\ report[1].true_positives = 1
    /\ report[1].false_positives = 1
    /\ report[1].total_api_calls = 0
    /\ report[1].precision = 5000
    /\ report[1].recall = 10000
    /\ report[1].f1_score = 6667
    /\ report[1].decoy_filter_rate = 0
    /\ report[1].api_efficiency = 0

-----------------------------------------------------------------------------
(* Vocabulary of the comparison properties *)

Compared == variant = "compare" /\ cw_output # << >>

\* worktree k has a report whose leak count is there and is zero
PassedExclusionAudit(k) ==
    /\ cw_reports[k] # << >>
    /\ "already_processed_incorrectly_processed" \in DOMAIN cw_reports[k][1]
    /\ cw_reports[k][1]["already_processed_incorrectly_processed"] = 0

\* the f1_score of worktree k's report, 0 for a report that has none
F1Of(k) ==
    IF "f1_score" \in DOMAIN cw_reports[k][1]
    THEN cw_reports[k][1]["f1_score"] ELSE 0

(* C31: whenever compare_worktrees has run, a declared winner passed the    *)
(* exclusion audit (its report has already_processed_incorrectly_processed  *)
(* and it is zero), whatever its f1_score; no worktree that passed has a    *)
(* higher f1_score than the winner; and when no worktree passed, no winner  *)
(* is declared.                                                             *)
C31_WinnerPassedExclusionAudit ==
    Compared =>
        LET winner == cw_output[1].winner
            Passed == {k \in DOMAIN cw_reports : PassedExclusionAudit(k)}
        IN  /\ winner # 0 =>
                /\ winner \in Passed
                /\ \A k \in Passed : F1Of(k) <= F1Of(winner)
            /\ Passed = {} => winner = 0

\* the first worktree has the best f1_score but leaked one deal, the third
\* has no leak count in its report: the second is declared winner
C31_Witness ==
    /\ Compared
    /\ cw_reports[1] # << >> /\ cw_reports[2] # << >> /\ cw_reports[3] # << >>
    /\ F1Of(1) > F1Of(2) /\ F1Of(3) > F1Of(2)
    /\ Get(cw_reports[1][1], "already_processed_incorrectly_processed", 0) = 1
    /\ "already_processed_incorrectly_processed" \notin DOMAIN cw_reports[3][1]
    /\ cw_output[1].winner = 2
    /\ cw_output[1].disqualified = <<1, 3>>

(* C35: for every report finalise writes for a run that recorded at least   *)
(* one deal, compare_worktrees.integrity_check reports OK, also when some   *)
(* deals were classified UNCLASSIFIED.                                      *)
C35_IntegrityCheckReportsOK ==
    (variant = "logger" /\ ReportWritten /\ report[1].deals_total > 0) =>
        integrity_check(report[1]) = "OK"

-----------------------------------------------------------------------------
(* Vocabulary of the graph-run properties *)

\* the number of times the scout node has run for the deal
ScoutExecutions ==
    Cardinality({k \in 1..Len(g_trace) : g_trace[k] = "scout"})

\* the longest path of build_graph: exclusion_check, three times scout,
\* gatekeeper, fetcher, fallback, telemetry
LongestPath == 3 + 5

\* a node raised, so the execution stopped without reaching END
StoppedShortOfEnd == g_node = "ABORTED"

ThirdAttemptFoundNothing ==
    /\ ScoutExecutions = 3
    /\ g_state.candidates = << >>

(* C32: every execution of the graph for one deal goes on to END and runs   *)
(* at most 8 nodes on the way; the scout node runs at most 3 times,         *)
(* search_attempts is the number of scout executions so far, and after a    *)
(* third attempt without candidates the next node is log and the deal ends  *)
(* NOT_FOUND.                                                               *)
C32_GraphRunReachesEnd ==
    variant = "graph" =>
        /\ ~StoppedShortOfEnd
        /\ Len(g_trace) <= LongestPath
        /\ ScoutExecutions <= 3
        /\ g_state.search_attempts = ScoutExecutions
        /\ (ThirdAttemptFoundNothing /\ g_trace[Len(g_trace)] = "scout")
               => g_node = "log"
        /\ (ThirdAttemptFoundNothing /\ g_node = "END")
               => g_state.final_status = "NOT_FOUND"

(* C33: whenever the graph has reached END, final_status equals             *)
(* pipeline_status and is one of ALREADY_PROCESSED, DOWNLOADED, SKIPPED,    *)
(* NOT_FOUND, FETCH_FAILED (so never 'active', 'UNKNOWN' or 'PENDING'), on  *)
(* every path through the graph.                                            *)
C33_FinalStatusIsTerminal ==
    GraphEnded =>
        /\ g_state.final_status = g_state.pipeline_status
        /\ g_state.final_status \in TerminalStatuses

\* a run that went through the fallback node and the telemetry node, whose
\* status on entry was 'active', and ended FETCH_FAILED
C33_Witness ==
    /\ GraphEnded
    /\ Ran("fallback")
    /\ g_trace[Len(g_trace)] = "telemetry"
    /\ g_state.final_status = "FETCH_FAILED"
    /\ g_state.pipeline_status = "FETCH_FAILED"

(* C34: every result evaluate returns has a score from 0 to 1 and a         *)
(* reasoning of at most 200 characters; a backend score above 1 comes back  *)
(* as 1 and one below 0 as 0, and the verdict is what the threshold the     *)
(* gatekeeper was constructed with gives for that clamped score.            *)
C34_ScoreAndReasoningAreBounded ==
    Evaluated =>
        LET r == gk_result[1].result
            OutOfRange ==
                /\ DecodesToRecord
                /\ Decoded.score.type = "number"
                /\ (Decoded.score.n > 100 \/ Decoded.score.n < 0)
        IN  /\ gk_result[1].raises = "none"
            /\ r.score >= 0 /\ r.score <= 100
            /\ r.reasoning <= 200
            /\ OutOfRange =>
                  /\ r.score = (IF Decoded.score.n > 100 THEN 100 ELSE 0)
                  /\ r.verdict = (IF r.score >= gk_threshold
                                  THEN "DOWNLOAD" ELSE "SKIP")

\* the backend scored 1.5 with a reasoning of 1000 characters: the result
\* has score 1, a reasoning of 200 characters, and under the threshold 1.0
\* the verdict DOWNLOAD
C34_Witness ==
    /\ Evaluated /\ DecodesToRecord
    /\ Decoded.score = [type |-> "number", n |-> 150]
    /\ Decoded.reasoning = [type |-> "string", len |-> 1000]
    /\ gk_threshold = 100
    /\ gk_result[1].result.score = 100
    /\ gk_result[1].result.reasoning = 200
    /\ gk_result[1].result.verdict = "DOWNLOAD"

-----------------------------------------------------------------------------
\* the event types of the events of the deal at position i, in log order
RECURSIVE EventTypesUpTo(_, _)
EventTypesUpTo(i, k) ==
    IF k = 0 THEN << >>
    ELSE IF log[k].deal = i
         THEN Append(EventTypesUpTo(i, k - 1), log[k].event_type)
         ELSE EventTypesUpTo(i, k - 1)

EventTypesOf(i) == EventTypesUpTo(i, Len(log))

-----------------------------------------------------------------------------
(* Vocabulary of the call-count property *)

\* the keyword queries one find_docket_entries call can send
KeywordQueries == Min(NumPriorityKeywords, MAX_KEYWORD_QUERIES_PER_DEAL)

\* The fewest and the most requests a discovery call has issued, by how it
\* ended: a call the budget tracker refused ("budget") sent no request of
\* its own kind any more, but a keyword search may have sent some before; a
\* call that ended in an error sent the request that failed; a keyword
\* search that found nothing sent every query, and one that found entries
\* sent at least one.
IssuedAtLeast(call) ==
    CASE call.op \notin {"find_docket", "find_docket_entries",
                         "get_recap_document_metadata"} -> 0
      [] call.res = "budget" -> 0
      [] call.op = "find_docket_entries" /\ call.res = "no_entries"
            -> KeywordQueries
      [] OTHER -> 1

IssuedAtMost(call) ==
    CASE call.op \notin {"find_docket", "find_docket_entries",
                         "get_recap_document_metadata"} -> 0
      [] call.op = "find_docket_entries" /\ call.res = "budget"
            -> KeywordQueries - 1
      [] call.op = "find_docket_entries" -> KeywordQueries
      [] call.res = "budget" -> 0
      [] OTHER -> 1

RECURSIVE Total(_, _, _)
Total(Issued(_), i, k) ==
    IF k = 0 THEN 0
    ELSE Total(Issued, i, k - 1)
         + (IF calls[k].deal = i THEN Issued(calls[k]) ELSE 0)

\* total_api_calls_this_deal of the terminal record of deal i
ReportedApiCalls(i) ==
    log[CHOOSE k \in TerminalsOf(i) : TRUE].total_api_calls_this_deal

(* C38: for every deal the straight-line pipeline has finished with, the    *)
(* total_api_calls_this_deal value of its PIPELINE_TERMINAL event is the    *)
(* number of external discovery calls issued for the deal (one docket       *)
(* search, one per keyword query sent, one metadata lookup), on every       *)
(* path, those on which a discovery call raises included: it is never       *)
(* below the fewest and never above the most requests the deal's calls can  *)
(* have issued.                                                             *)
C38_TerminalCountsIssuedCalls ==
    \A i \in 1..Len(deals) :
        (Finished(i) /\ TerminalsOf(i) # {}) =>
            /\ ReportedApiCalls(i) >= Total(IssuedAtLeast, i, Len(calls))
            /\ ReportedApiCalls(i) <= Total(IssuedAtMost, i, Len(calls))
-----------------------------------------------------------------------------
(* C39: the exclusion decision of the graph variant equals is_excluded for *)
(* every deal record: once exclusion_check_node has run on a record, it    *)
(* has ended the run as ALREADY_PROCESSED exactly when is_excluded holds   *)
(* of that record.                                                         *)

ExclusionDecided == variant = "graph" /\ g_trace # << >>

NodeExcluded == g_state.pipeline_status = "ALREADY_PROCESSED"

C39_NodeDecidesAsIsExcluded ==
    ExclusionDecided => (NodeExcluded <=> is_excluded(g_state.deal))

-----------------------------------------------------------------------------
(* validators.py: the schema of a candidate document *)

\* validators.py:65-71: re.match(r"^\d{4}-\d{2}-\d{2}$", v); "$" also
\* matches before a newline that ends the string
validate_date_format(v) ==
    LET body == IF Len(v) = 11 /\ v[11] = "\n" THEN SubSeq(v, 1, 10) ELSE v
    IN  /\ Len(body) = 10
        /\ \A k \in 1..10 : body[k] = IF k \in {5, 8} THEN "-" ELSE "d"

\* validators.py:47-71, the fields scout_node fills in.  The address of a
\* CourtListener candidate, "url", is built on storage.courtlistener.com
\* (nodes.py:145), which the allow-list names (validators.py:26-33).
CandidateDocument(c) ==
    /\ c.source \in {"courtlistener", "kroll", "stretto", "epiq"}
    /\ validate_date_format(c.filing_date)
    /\ c.resolved_pdf_url \in {"none", "url"}
    /\ c.api_calls_consumed >= 0

(* C37: every candidate scout_node puts into the pipeline state satisfies  *)
(* the CandidateDocument schema; an output that fails validation does not  *)
(* update the state.                                                       *)

C37_CandidatesSatisfySchema ==
    variant = "graph" =>
        \A k \in 1..Len(g_state.candidates) :
            CandidateDocument(g_state.candidates[k])

====
